---------------------------- MODULE Spec2Model ----------------------------
(***************************************************************************)
(* A model of the chessmg move generator: the bitboard board, do_move,     *)
(* the pseudo-legal generator, the legality filter, the attack query and    *)
(* the magic-bitboard table generation.                                     *)
(*                                                                          *)
(* A Bitboard (a u64) is modelled as the set of its set bit indices, a      *)
(* subset of 0..63: '&' is intersection, '|' union, '!' the complement in   *)
(* 0..63, and a shift moves every index and drops those that leave 0..63.   *)
(* An Option<Kind> is the string "None" or the kind; an Option<Square> is  *)
(* the empty set (None) or the singleton of the square (Some).             *)
(***************************************************************************)
EXTENDS Integers, Sequences, FiniteSets, TLC

VARIABLES
    board,      \* the Board the play is at
    prev,       \* the Board before the last do_move
    last,       \* the Move the last do_move applied (NoMove before any)
    ply,        \* the number of do_move calls made by the explorer
    magic,      \* the state of the magic table generation and lookup
    fen,        \* the state of a Board::from_fen call: its input and result
    perft,      \* the state of a perft call: its frames and node count
    loader,     \* the state of a load_or_generate call and its file
    movegen     \* the MoveGen object: its pseudo and legal move lists

vars == <<board, prev, last, ply, magic, fen, perft, loader, movegen>>

----------------------------------------------------------------------------
(* Squares, colours, kinds *)

Squares == 0 .. 63

A1 == 0
B1 == 1
C1 == 2
D1 == 3
E1 == 4
F1 == 5
G1 == 6
H1 == 7
D4 == 27
E5 == 36
A8 == 56
B8 == 57
C8 == 58
D8 == 59
E8 == 60
F8 == 61
G8 == 62
H8 == 63

Colors == {"White", "Black"}
Kinds == {"Pawn", "Knight", "Bishop", "Rook", "Queen", "King"}

Opposite(c) == IF c = "White" THEN "Black" ELSE "White"

RankOf(s) == s \div 8
FileOf(s) == s % 8

----------------------------------------------------------------------------
(* Bitboard primitive *)

square_mask(s) == {s}

Shl(bb, k) == {s + k : s \in {x \in bb : x + k <= 63}}
Shr(bb, k) == {s - k : s \in {x \in bb : x >= k}}
Not(bb) == Squares \ bb

\* The index of the lowest set bit; pop_lsb returns it and clears it.
Lsb(bb) == CHOOSE s \in bb : \A t \in bb : s <= t

AllSquares == [i \in 1 .. 64 |-> i - 1]

\* The squares a `while bb != 0 { bb.pop_lsb() }` loop visits, in order.
PopOrder(bb) == SelectSeq(AllSquares, LAMBDA s : s \in bb)

MASK_RANK == [r \in 0 .. 7 |-> {s \in Squares : RankOf(s) = r}]
CLEAR_RANK == [r \in 0 .. 7 |-> {s \in Squares : RankOf(s) # r}]
CLEAR_FILE == [f \in 0 .. 7 |-> {s \in Squares : FileOf(s) # f}]

----------------------------------------------------------------------------
(* Board *)

Casteling(wk, wq, bk, bq) ==
    [white_kingside |-> wk, white_queenside |-> wq,
     black_kingside |-> bk, black_queenside |-> bq]

\* create_initial with the black queen and king on each other's square
create_initial_swapped(kind, color) ==
    IF color = "White"
    THEN CASE kind = "Pawn" -> 8 .. 15
           [] kind = "Knight" -> {1, 6}
           [] kind = "Bishop" -> {2, 5}
           [] kind = "Rook" -> {0, 7}
           [] kind = "Queen" -> {3}
           [] kind = "King" -> {4}
    ELSE CASE kind = "Pawn" -> 48 .. 55
           [] kind = "Knight" -> {57, 62}
           [] kind = "Bishop" -> {58, 61}
           [] kind = "Rook" -> {56, 63}
           [] kind = "Queen" -> {60}
           [] kind = "King" -> {59}

create_initial(kind, color) ==
    IF color = "White"
    THEN CASE kind = "Pawn" -> 8 .. 15
           [] kind = "Knight" -> {1, 6}
           [] kind = "Bishop" -> {2, 5}
           [] kind = "Rook" -> {0, 7}
           [] kind = "Queen" -> {3}
           [] kind = "King" -> {4}
    ELSE CASE kind = "Pawn" -> 48 .. 55
           [] kind = "Knight" -> {57, 62}
           [] kind = "Bishop" -> {58, 61}
           [] kind = "Rook" -> {56, 63}
           [] kind = "Queen" -> {59}
           [] kind = "King" -> {60}

DefaultBoard ==
    [to_move |-> "White",
     bb |-> [c \in Colors |-> [k \in Kinds |-> create_initial(k, c)]],
     casteling_rights |-> Casteling(TRUE, TRUE, TRUE, TRUE),
     en_passant |-> {}]

ZeroBoard ==
    [to_move |-> "White",
     bb |-> [c \in Colors |-> [k \in Kinds |-> {}]],
     casteling_rights |-> Casteling(FALSE, FALSE, FALSE, FALSE),
     en_passant |-> {}]

all_white_pieces(b) == UNION {b.bb["White"][k] : k \in Kinds}
all_black_pieces(b) == UNION {b.bb["Black"][k] : k \in Kinds}
all_pieces(b) == all_white_pieces(b) \cup all_black_pieces(b)

\* all_white_pieces / all_black_pieces chosen by colour
PiecesOf(b, c) == IF c = "White" THEN all_white_pieces(b) ELSE all_black_pieces(b)

\* The probe order of get_piece and get_piece_kind: White before Black,
\* Pawn, Knight, Bishop, Rook, Queen, King.
FirstKind(b, c, s) ==
    IF s \in b.bb[c]["Pawn"] THEN "Pawn"
    ELSE IF s \in b.bb[c]["Knight"] THEN "Knight"
    ELSE IF s \in b.bb[c]["Bishop"] THEN "Bishop"
    ELSE IF s \in b.bb[c]["Rook"] THEN "Rook"
    ELSE IF s \in b.bb[c]["Queen"] THEN "Queen"
    ELSE IF s \in b.bb[c]["King"] THEN "King"
    ELSE "None"

\* get_piece: the (kind, color) of the first bitboard holding s; None is the
\* record whose kind and color are "None".
get_piece(b, s) ==
    LET w == FirstKind(b, "White", s)
        k == FirstKind(b, "Black", s)
    IN  IF w # "None" THEN [kind |-> w, color |-> "White"]
        ELSE IF k # "None" THEN [kind |-> k, color |-> "Black"]
        ELSE [kind |-> "None", color |-> "None"]

get_piece_kind(b, s) ==
    LET w == FirstKind(b, "White", s)
    IN  IF w # "None" THEN w ELSE FirstKind(b, "Black", s)

\* Bitboard(0) for None, square_mask(square) for Some(square)
get_en_passant(b) == UNION {square_mask(s) : s \in b.en_passant}

----------------------------------------------------------------------------
(* Move *)

Move(kind, color, from, to, casteling, promoting_piece, double_push, en_passant, captured_piece) ==
    [piece_kind |-> kind, piece_color |-> color, from |-> from, to |-> to,
     casteling |-> casteling, promoting_piece |-> promoting_piece,
     double_push |-> double_push, en_passant |-> en_passant,
     captured_piece |-> captured_piece]

\* A quiet or capturing move of a piece: no castling, promotion, double push
\* or en passant.
PlainMove(kind, color, from, to, captured_piece) ==
    Move(kind, color, from, to, FALSE, "None", FALSE, FALSE, captured_piece)

----------------------------------------------------------------------------
(* Board::do_move, step by step in the order of the source *)

\* piece.bitboard = piece.bitboard & !from_bitboard
ClearFrom(b, m) ==
    [b EXCEPT !.bb[m.piece_color][m.piece_kind] = @ \ square_mask(m.from)]

\* MoverRights with the rook rule written as an assignment of "the rook is
\* not leaving its corner", which sets the right again on any other rook move
MoverRightsAssigns(cr, m) ==
    LET r1 == IF m.piece_kind = "Rook" /\ m.piece_color = "White"
              THEN [cr EXCEPT !.white_kingside = (m.from # H1),
                              !.white_queenside = (m.from # A1)]
              ELSE cr
        r2 == IF m.piece_kind = "Rook" /\ m.piece_color = "Black"
              THEN [r1 EXCEPT !.black_kingside = (m.from # H8),
                              !.black_queenside = (m.from # A8)]
              ELSE r1
    IN  IF m.piece_kind = "King"
        THEN IF m.piece_color = "White"
             THEN [r2 EXCEPT !.white_kingside = FALSE, !.white_queenside = FALSE]
             ELSE [r2 EXCEPT !.black_kingside = FALSE, !.black_queenside = FALSE]
        ELSE r2

\* MoverRights with a king move clearing only the kingside right
MoverRightsKingOneSide(cr, m) ==
    LET r1 == IF m.piece_kind = "Rook" /\ m.piece_color = "White"
              THEN IF m.from = H1 THEN [cr EXCEPT !.white_kingside = FALSE]
                   ELSE IF m.from = A1 THEN [cr EXCEPT !.white_queenside = FALSE]
                   ELSE cr
              ELSE cr
        r2 == IF m.piece_kind = "Rook" /\ m.piece_color = "Black"
              THEN IF m.from = H8 THEN [r1 EXCEPT !.black_kingside = FALSE]
                   ELSE IF m.from = A8 THEN [r1 EXCEPT !.black_queenside = FALSE]
                   ELSE r1
              ELSE r1
    IN  IF m.piece_kind = "King"
        THEN IF m.piece_color = "White"
             THEN [r2 EXCEPT !.white_kingside = FALSE]
             ELSE [r2 EXCEPT !.black_kingside = FALSE]
        ELSE r2

\* "If the rook move, or the king, remove the casteling rights"
MoverRights(cr, m) ==
    LET r1 == IF m.piece_kind = "Rook" /\ m.piece_color = "White"
              THEN IF m.from = H1 THEN [cr EXCEPT !.white_kingside = FALSE]
                   ELSE IF m.from = A1 THEN [cr EXCEPT !.white_queenside = FALSE]
                   ELSE cr
              ELSE cr
        r2 == IF m.piece_kind = "Rook" /\ m.piece_color = "Black"
              THEN IF m.from = H8 THEN [r1 EXCEPT !.black_kingside = FALSE]
                   ELSE IF m.from = A8 THEN [r1 EXCEPT !.black_queenside = FALSE]
                   ELSE r1
              ELSE r1
    IN  IF m.piece_kind = "King"
        THEN IF m.piece_color = "White"
             THEN [r2 EXCEPT !.white_kingside = FALSE, !.white_queenside = FALSE]
             ELSE [r2 EXCEPT !.black_kingside = FALSE, !.black_queenside = FALSE]
        ELSE r2

\* if m.promoting_piece.is_none() { piece.bitboard |= to_bitboard }
\* SetTo that makes the pawn appear on `to` also when the move promotes
SetToAlways(b, m) ==
    [b EXCEPT !.bb[m.piece_color][m.piece_kind] = @ \cup square_mask(m.to)]

SetTo(b, m) ==
    IF m.promoting_piece = "None"
    THEN [b EXCEPT !.bb[m.piece_color][m.piece_kind] = @ \cup square_mask(m.to)]
    ELSE b

\* CapturedMask that clears the target square for every capture
CapturedMaskOnTo(b, m) == square_mask(m.to)

\* The bit the capture clears. The en-passant case reads self.en_passant,
\* which do_move has not reset yet; unwrap() of None panics, which no move
\* of the generator causes (an en-passant move exists only with a target).
CapturedMask(b, m) ==
    IF m.en_passant
    THEN IF Opposite(m.piece_color) = "White"
         THEN Shl(get_en_passant(b), 8)
         ELSE Shr(get_en_passant(b), 8)
    ELSE square_mask(m.to)

\* CapturedRights with the two corners of each colour swapped: the A-file
\* corner clears the kingside right and the H-file corner the queenside right
CapturedRightsSwapped(cr, m) ==
    LET enemy_color == Opposite(m.piece_color)
        r1 == IF m.captured_piece = "Rook" /\ enemy_color = "White"
              THEN LET a == IF m.to = A1 THEN [cr EXCEPT !.white_kingside = FALSE] ELSE cr
                   IN  IF m.to = H1 THEN [a EXCEPT !.white_queenside = FALSE] ELSE a
              ELSE cr
    IN  IF m.captured_piece = "Rook" /\ enemy_color = "Black"
        THEN LET a == IF m.to = A8 THEN [r1 EXCEPT !.black_kingside = FALSE] ELSE r1
             IN  IF m.to = H8 THEN [a EXCEPT !.black_queenside = FALSE] ELSE a
        ELSE r1

\* The castling rights after the capture of an enemy rook on its corner
CapturedRights(cr, m) ==
    LET enemy_color == Opposite(m.piece_color)
        r1 == IF m.captured_piece = "Rook" /\ enemy_color = "White"
              THEN LET a == IF m.to = H1 THEN [cr EXCEPT !.white_kingside = FALSE] ELSE cr
                   IN  IF m.to = A1 THEN [a EXCEPT !.white_queenside = FALSE] ELSE a
              ELSE cr
    IN  IF m.captured_piece = "Rook" /\ enemy_color = "Black"
        THEN LET a == IF m.to = H8 THEN [r1 EXCEPT !.black_kingside = FALSE] ELSE r1
             IN  IF m.to = A8 THEN [a EXCEPT !.black_queenside = FALSE] ELSE a
        ELSE r1

\* Capture without the line that clears the captured piece's bit
CaptureKeepsBit(b, m) ==
    IF m.captured_piece # "None"
    THEN [b EXCEPT !.casteling_rights = CapturedRights(@, m)]
    ELSE b

\* if m.captured_piece.is_some() { ... }
Capture(b, m) ==
    IF m.captured_piece # "None"
    THEN [b EXCEPT !.bb[Opposite(m.piece_color)][m.captured_piece] =
                        @ \ CapturedMask(b, m),
                   !.casteling_rights = CapturedRights(@, m)]
    ELSE b

\* if m.promoting_piece.is_some() { new_piece.bitboard |= to_bitboard }
Promote(b, m) ==
    IF m.promoting_piece # "None"
    THEN [b EXCEPT !.bb[m.piece_color][m.promoting_piece] = @ \cup square_mask(m.to)]
    ELSE b

\* NewEnPassant with the target taken one rank below `to`, which is right
\* for a white push only
NewEnPassantWhiteOnly(m) ==
    IF m.double_push THEN {m.to - 8} ELSE {}

\* The en-passant target after the move
NewEnPassant(m) ==
    IF m.double_push THEN {(m.to + m.from) \div 2} ELSE {}

\* if m.casteling { match m.to { G1 => ..., C1 => ..., G8 => ..., C8 => ... } }
\* Any other destination panics; the generator emits none.
\* CastleRook that sets the rook on its landing square and leaves the corner
CastleRookKeepsCorner(b, m) ==
    IF ~m.casteling THEN b
    ELSE CASE m.to = G1 -> [b EXCEPT !.bb["White"]["Rook"] = @ \cup square_mask(F1)]
           [] m.to = C1 -> [b EXCEPT !.bb["White"]["Rook"] = @ \cup square_mask(D1)]
           [] m.to = G8 -> [b EXCEPT !.bb["Black"]["Rook"] = @ \cup square_mask(F8)]
           [] m.to = C8 -> [b EXCEPT !.bb["Black"]["Rook"] = @ \cup square_mask(D8)]

CastleRook(b, m) ==
    IF ~m.casteling THEN b
    ELSE CASE m.to = G1 ->
                [b EXCEPT !.bb["White"]["Rook"] = (@ \ square_mask(H1)) \cup square_mask(F1)]
           [] m.to = C1 ->
                [b EXCEPT !.bb["White"]["Rook"] = (@ \ square_mask(A1)) \cup square_mask(D1)]
           [] m.to = G8 ->
                [b EXCEPT !.bb["Black"]["Rook"] = (@ \ square_mask(H8)) \cup square_mask(F8)]
           [] m.to = C8 ->
                [b EXCEPT !.bb["Black"]["Rook"] = (@ \ square_mask(A8)) \cup square_mask(D8)]

do_move(b, m) ==
    LET b1 == ClearFrom(b, m)
        b2 == [b1 EXCEPT !.casteling_rights = MoverRights(@, m)]
        b3 == SetTo(b2, m)
        b4 == Capture(b3, m)
        b5 == Promote(b4, m)
        b6 == [b5 EXCEPT !.en_passant = NewEnPassant(m)]
        b7 == CastleRook(b6, m)
    IN  [b7 EXCEPT !.to_move = Opposite(@)]

----------------------------------------------------------------------------
(* Rays, masks and the reference attack *)

\* RAY[d][s]: the squares stepping from s in direction (dr, df) to the edge,
\* s excluded.
Ray(s, dr, df) ==
    {t \in Squares : \E k \in 1 .. 7 :
        /\ RankOf(t) = RankOf(s) + k * dr
        /\ FileOf(t) = FileOf(s) + k * df}

RookDirections == {<<-1, 0>>, <<1, 0>>, <<0, -1>>, <<0, 1>>}
BishopDirections == {<<-1, -1>>, <<-1, 1>>, <<1, -1>>, <<1, 1>>}

RookMaskTable == [s \in Squares |-> UNION {Ray(s, d[1], d[2]) : d \in RookDirections}]
BishopMaskTable == [s \in Squares |-> UNION {Ray(s, d[1], d[2]) : d \in BishopDirections}]

generate_rook_attack_mask(square) == RookMaskTable[square]
generate_bishop_attack_mask(square) == BishopMaskTable[square]

\* One ray of compute_attack: every square up to and including the first
\* blocker.
RECURSIVE WalkRay(_, _, _, _, _)
WalkRay(r, f, dr, df, blockers) ==
    IF r \in 0 .. 7 /\ f \in 0 .. 7
    THEN LET sq == r * 8 + f
         IN  IF sq \in blockers THEN {sq}
             ELSE {sq} \cup WalkRay(r + dr, f + df, dr, df, blockers)
    ELSE {}

compute_attack(square, blockers, kind) ==
    LET rank == square \div 8
        file == square % 8
        directions == IF kind = "Rook" THEN RookDirections ELSE BishopDirections
    IN  UNION {WalkRay(rank + d[1], file + d[2], d[1], d[2], blockers) : d \in directions}

----------------------------------------------------------------------------
(* The magic hash, MagicEntry::generate and MagicEntry::find_attack *)

\* A u64 that is not a bitboard (the magic, a product) is kept as its eight
\* bytes, least significant first, so that no intermediate value leaves the
\* range of 32-bit integers that TLC computes with.
U64OfBitboard(bb) ==
    LET byte(i) ==
            LET bit(k) == IF 8 * i + k \in bb THEN 2 ^ k ELSE 0
            IN  bit(0) + bit(1) + bit(2) + bit(3) + bit(4) + bit(5) + bit(6) + bit(7)
    IN  <<byte(0), byte(1), byte(2), byte(3), byte(4), byte(5), byte(6), byte(7)>>

\* The sum of the byte products a[i] * n[j] of weight 256^(k-1)
RECURSIVE ColumnSum(_, _, _, _)
ColumnSum(a, n, k, i) ==
    IF i > k THEN 0 ELSE a[i] * n[k + 1 - i] + ColumnSum(a, n, k, i + 1)

\* The bytes k .. 8 of a * n, given the carry into byte k; what would carry
\* out of byte 8 is dropped, which is the wrap modulo 2^64.
RECURSIVE MulFrom(_, _, _, _)
MulFrom(a, n, k, carry) ==
    IF k > 8 THEN <<>>
    ELSE LET t == ColumnSum(a, n, k, 1) + carry
         IN  <<t % 256>> \o MulFrom(a, n, k + 1, t \div 256)

\* Bitboard::wrapping_mul: self.0.wrapping_mul(n)
wrapping_mul(bb, n) == MulFrom(U64OfBitboard(bb), n, 1, 0)

\* Bitboard::count_ones
count_ones(bb) == Cardinality(bb)

\* u16::try_from(product >> shift).unwrap(): the top 64 - shift bits of the
\* product.  shift is 64 - mask.count_ones() and no mask has more than 14
\* bits, so these bits lie in the two top bytes and the value fits a u16.
magic_index(bb, magic_number, shift) ==
    LET product == wrapping_mul(bb, magic_number)
    IN  (product[8] * 256 + product[7]) \div (2 ^ (shift - 48))

\* The mask MagicEntry::generate starts from
mask_of(square, kind) ==
    IF kind = "Rook" THEN generate_rook_attack_mask(square)
    ELSE generate_bishop_attack_mask(square)

\* enumerate_blockers: every subset of the mask.  The order of the Vec only
\* decides which collision ends a failing pass first.
enumerate_blockers(mask) == SUBSET mask

\* The pairs (magic_index, attack) that one pass of the loop of generate
\* meets, one for every permutation
PassPairs(square, kind, magic_number) ==
    LET mask == mask_of(square, kind)
        shift == 64 - count_ones(mask)
    IN  {<<magic_index(blockers, magic_number, shift),
           compute_attack(square, blockers, kind)>> :
            blockers \in enumerate_blockers(mask)}

\* PassSuccess of a pass that inserts an attack for a new index and never
\* compares the attack with an existing entry
PassNeverFails(pairs) ==
    Cardinality(pairs) >= Cardinality({p[1] : p \in pairs})

\* `success` at the end of the pass: no permutation found an existing entry
\* with another attack, that is, no index is paired with two attacks
PassSuccess(pairs) ==
    Cardinality(pairs) = Cardinality({p[1] : p \in pairs})

\* attack_set at the end of a successful pass: each index met, mapped to the
\* one attack inserted for it
PassAttackSet(pairs) ==
    LET attacks == {p[2] : p \in pairs}
    IN  [i \in {p[1] : p \in pairs} |-> CHOOSE a \in attacks : <<i, a>> \in pairs]

\* The MagicEntry that generate returns after a successful pass over
\* magic_number that met `pairs`
MagicEntry(square, kind, magic_number, pairs) ==
    [attack_set |-> PassAttackSet(pairs),
     default_attack |-> compute_attack(square, {}, kind),
     magic |-> magic_number,
     shift |-> 64 - count_ones(mask_of(square, kind))]

\* find_attack shifting the product one bit further than generate did
find_attack_short_index(entry, blockers) ==
    LET index == magic_index(blockers, entry.magic, entry.shift + 1)
    IN  IF index \in DOMAIN entry.attack_set
        THEN entry.attack_set[index]
        ELSE entry.default_attack

\* MagicEntry::find_attack
find_attack(entry, blockers) ==
    LET index == magic_index(blockers, entry.magic, entry.shift)
    IN  IF index \in DOMAIN entry.attack_set
        THEN entry.attack_set[index]
        ELSE entry.default_attack

\* ROOK_MAGICS[pos].find_attack(blockers) and BISHOP_MAGICS[pos].find_attack
\* (blockers) as the generator and the attack query call them, with blockers
\* already cut to the mask of pos.  The two statics are the tables of the
\* process that works on the board: a board value of the model may carry, in
\* a field `magics`, the generated entry of one (kind, square) of its
\* process, and a lookup of that entry is find_attack on it.  For every
\* other entry the lookup is the attack the entry stores for the hash of
\* blockers, which is compute_attack of a subset with the same attack.
MagicAttack(b, kind, pos, blockers) ==
    IF "magics" \in DOMAIN b /\ b.magics.kind = kind /\ b.magics.square = pos
    THEN find_attack(b.magics.entry, blockers)
    ELSE compute_attack(pos, blockers, kind)

\* The board b in a process whose table of `kind` holds `entry` at `square`
WithMagics(b, kind, square, entry) ==
    [to_move |-> b.to_move, bb |-> b.bb,
     casteling_rights |-> b.casteling_rights, en_passant |-> b.en_passant,
     magics |-> [kind |-> kind, square |-> square, entry |-> entry]]

\* blockers = all_pieces & mask(pos) & !Bitboard(1 << pos); the magic lookup
RookAttacks(b, pos) ==
    MagicAttack(b, "Rook", pos,
        (all_pieces(b) \cap generate_rook_attack_mask(pos)) \cap Not({pos}))
BishopAttacks(b, pos) ==
    MagicAttack(b, "Bishop", pos,
        (all_pieces(b) \cap generate_bishop_attack_mask(pos)) \cap Not({pos}))

----------------------------------------------------------------------------
(* The attack query *)

\* KingSpots that clips file h for the steps towards file a, and file a for
\* those towards file h
KingSpotsClipSwapped(king_bitboard) ==
    LET king_clip_file_h == king_bitboard \cap CLEAR_FILE[7]
        king_clip_file_a == king_bitboard \cap CLEAR_FILE[0]
    IN  Shl(king_clip_file_h, 7) \cup Shl(king_bitboard, 8)
        \cup Shl(king_clip_file_a, 9) \cup Shl(king_clip_file_a, 1)
        \cup Shr(king_clip_file_a, 7) \cup Shr(king_bitboard, 8)
        \cup Shr(king_clip_file_h, 9) \cup Shr(king_clip_file_h, 1)

\* The eight one-square steps of a king bitboard, file-clipped
KingSpots(king_bitboard) ==
    LET king_clip_file_h == king_bitboard \cap CLEAR_FILE[7]
        king_clip_file_a == king_bitboard \cap CLEAR_FILE[0]
    IN  Shl(king_clip_file_a, 7) \cup Shl(king_bitboard, 8)
        \cup Shl(king_clip_file_h, 9) \cup Shl(king_clip_file_h, 1)
        \cup Shr(king_clip_file_h, 7) \cup Shr(king_bitboard, 8)
        \cup Shr(king_clip_file_a, 9) \cup Shr(king_clip_file_a, 1)

gen_knight_moves(knight_loc) ==
    LET knight_clip_file_h == knight_loc \cap CLEAR_FILE[7]
        knight_clip_file_gh == (knight_loc \cap CLEAR_FILE[6]) \cap CLEAR_FILE[7]
        knight_clip_file_a == knight_loc \cap CLEAR_FILE[0]
        knight_clip_file_ab == (knight_loc \cap CLEAR_FILE[1]) \cap CLEAR_FILE[0]
    IN  Shl(knight_clip_file_h, 17) \cup Shl(knight_clip_file_gh, 10)
        \cup Shr(knight_clip_file_gh, 6) \cup Shr(knight_clip_file_h, 15)
        \cup Shr(knight_clip_file_a, 17) \cup Shr(knight_clip_file_ab, 10)
        \cup Shl(knight_clip_file_ab, 6) \cup Shl(knight_clip_file_a, 15)

\* PieceAttacks whose queen loop leaves out bishop_moves
PieceAttacksQueenAsRook(b, c) ==
    UNION {gen_knight_moves(square_mask(p)) : p \in b.bb[c]["Knight"]}
    \cup UNION {BishopAttacks(b, p) : p \in b.bb[c]["Bishop"]}
    \cup UNION {RookAttacks(b, p) : p \in b.bb[c]["Rook"]}
    \cup UNION {RookAttacks(b, p) : p \in b.bb[c]["Queen"]}

\* The union of the attacks of the knights, bishops, rooks and queens of
\* colour c (the four loops of is_square_under_*_attack)
PieceAttacks(b, c) ==
    UNION {gen_knight_moves(square_mask(p)) : p \in b.bb[c]["Knight"]}
    \cup UNION {BishopAttacks(b, p) : p \in b.bb[c]["Bishop"]}
    \cup UNION {RookAttacks(b, p) : p \in b.bb[c]["Rook"]}
    \cup UNION {RookAttacks(b, p) \cup BishopAttacks(b, p) : p \in b.bb[c]["Queen"]}

is_square_under_white_attack(b, square) ==
    LET pawn_left_attacks == Shl(b.bb["White"]["Pawn"], 7) \cap CLEAR_FILE[7]
        pawn_right_attacks == Shl(b.bb["White"]["Pawn"], 9) \cap CLEAR_FILE[0]
        king_attacks == KingSpots(b.bb["White"]["King"])
    IN  square_mask(square) \cap
          (pawn_left_attacks \cup pawn_right_attacks \cup king_attacks
           \cup PieceAttacks(b, "White")) # {}

is_square_under_black_attack(b, square) ==
    LET pawn_left_attacks == Shr(b.bb["Black"]["Pawn"], 7) \cap CLEAR_FILE[0]
        pawn_right_attacks == Shr(b.bb["Black"]["Pawn"], 9) \cap CLEAR_FILE[7]
        king_attacks == KingSpots(b.bb["Black"]["King"])
    IN  square_mask(square) \cap
          (pawn_left_attacks \cup pawn_right_attacks \cup king_attacks
           \cup PieceAttacks(b, "Black")) # {}

is_square_under_attack(b, square, by) ==
    IF by = "White" THEN is_square_under_white_attack(b, square)
    ELSE is_square_under_black_attack(b, square)

\* Board::is_in_check: the king square is pop_lsb().unwrap() of the king
\* bitboard (a panic without a king, which no board of this model lacks).
is_in_check(b, color) ==
    is_square_under_attack(b, Lsb(b.bb[color]["King"]), Opposite(color))

----------------------------------------------------------------------------
(* The pseudo-legal generator: each gen_* is the sequence of moves the       *)
(* function pushes on pseudo_move_list, in push order                        *)

SeqRange(s) == {s[i] : i \in 1 .. Len(s)}

RECURSIVE Concat(_)
Concat(ss) == IF ss = <<>> THEN <<>> ELSE Head(ss) \o Concat(Tail(ss))

\* A `while bb != 0 { let to = bb.pop_lsb().unwrap(); push F(to).. }` loop
PopLoop(bb, F(_)) ==
    LET order == PopOrder(bb)
    IN  Concat([i \in 1 .. Len(order) |-> F(order[i])])

\* The four promotion moves pushed for one (from, to): Queen, Rook, Bishop,
\* Knight
Promotions(color, from, to, captured_piece) ==
    << Move("Pawn", color, from, to, FALSE, "Queen", FALSE, FALSE, captured_piece),
       Move("Pawn", color, from, to, FALSE, "Rook", FALSE, FALSE, captured_piece),
       Move("Pawn", color, from, to, FALSE, "Bishop", FALSE, FALSE, captured_piece),
       Move("Pawn", color, from, to, FALSE, "Knight", FALSE, FALSE, captured_piece) >>

gen_white_pawn_single_move(b) ==
    LET free_squares == Not(all_pieces(b))
        pushed == Shl(b.bb["White"]["Pawn"], 8) \cap free_squares
        promotions == pushed \cap MASK_RANK[7]
        moved_pawns == pushed \cap Not(MASK_RANK[7])
    IN  PopLoop(moved_pawns, LAMBDA to : <<PlainMove("Pawn", "White", to - 8, to, "None")>>)
        \o PopLoop(promotions, LAMBDA to : Promotions("White", to - 8, to, "None"))

\* gen_white_pawn_double_move that does not ask the square in between to be
\* free
gen_white_pawn_double_move_jumping(b) ==
    LET free_squares == Not(all_pieces(b))
        single_pushes == Shl(b.bb["White"]["Pawn"], 8)
        double_pushes == (Shl(single_pushes, 8) \cap free_squares) \cap MASK_RANK[3]
    IN  PopLoop(double_pushes, LAMBDA to :
            <<Move("Pawn", "White", to - 16, to, FALSE, "None", TRUE, FALSE, "None")>>)

\* gen_white_pawn_double_move that also sets en_passant on the move
gen_white_pawn_double_move_flagged(b) ==
    LET free_squares == Not(all_pieces(b))
        single_pushes == Shl(b.bb["White"]["Pawn"], 8) \cap free_squares
        double_pushes == (Shl(single_pushes, 8) \cap free_squares) \cap MASK_RANK[3]
    IN  PopLoop(double_pushes, LAMBDA to :
            <<Move("Pawn", "White", to - 16, to, FALSE, "None", TRUE, TRUE, "None")>>)

gen_white_pawn_double_move(b) ==
    LET free_squares == Not(all_pieces(b))
        single_pushes == Shl(b.bb["White"]["Pawn"], 8) \cap free_squares
        double_pushes == (Shl(single_pushes, 8) \cap free_squares) \cap MASK_RANK[3]
    IN  PopLoop(double_pushes, LAMBDA to :
            <<Move("Pawn", "White", to - 16, to, FALSE, "None", TRUE, FALSE, "None")>>)

\* The shared body of the four gen_*_pawn_*_attack functions: `shifted` is the
\* shifted pawn bitboard, `clear` the file mask, `back` the offset from `to`
\* back to `from` (negative for White), `last_rank` the promotion rank.
PawnAttack(b, color, shifted, clear, back, last_rank) ==
    LET hits == (shifted \cap PiecesOf(b, Opposite(color))) \cap clear
        attack_promotions == hits \cap MASK_RANK[last_rank]
        regular_attacks == hits \cap CLEAR_RANK[last_rank]
        en_passant == (shifted \cap get_en_passant(b)) \cap clear
    IN  PopLoop(regular_attacks, LAMBDA to :
            <<PlainMove("Pawn", color, to + back, to, get_piece_kind(b, to))>>)
        \o PopLoop(attack_promotions, LAMBDA to :
            Promotions(color, to + back, to, get_piece_kind(b, to)))
        \o (IF en_passant # {}
            THEN <<Move("Pawn", color, Lsb(en_passant) + back, Lsb(en_passant),
                        FALSE, "None", FALSE, TRUE, "Pawn")>>
            ELSE <<>>)

gen_white_pawn_left_attack(b) ==
    PawnAttack(b, "White", Shl(b.bb["White"]["Pawn"], 7), CLEAR_FILE[7], -7, 7)

gen_white_pawn_right_attack(b) ==
    PawnAttack(b, "White", Shl(b.bb["White"]["Pawn"], 9), CLEAR_FILE[0], -9, 7)

gen_black_pawn_single_move(b) ==
    LET free_squares == Not(all_pieces(b))
        pushed == Shr(b.bb["Black"]["Pawn"], 8) \cap free_squares
        promotions == pushed \cap MASK_RANK[0]
        moved_pawns == pushed \cap CLEAR_RANK[0]
    IN  PopLoop(moved_pawns, LAMBDA to : <<PlainMove("Pawn", "Black", to + 8, to, "None")>>)
        \o PopLoop(promotions, LAMBDA to : Promotions("Black", to + 8, to, "None"))

gen_black_pawn_double_move(b) ==
    LET free_squares == Not(all_pieces(b))
        single_pushes == Shr(b.bb["Black"]["Pawn"], 8) \cap free_squares
        double_pushes == (Shr(single_pushes, 8) \cap free_squares) \cap MASK_RANK[4]
    IN  PopLoop(double_pushes, LAMBDA to :
            <<Move("Pawn", "Black", to + 16, to, FALSE, "None", TRUE, FALSE, "None")>>)

gen_black_pawn_left_attack(b) ==
    PawnAttack(b, "Black", Shr(b.bb["Black"]["Pawn"], 7), CLEAR_FILE[0], 7, 0)

gen_black_pawn_right_attack(b) ==
    PawnAttack(b, "Black", Shr(b.bb["Black"]["Pawn"], 9), CLEAR_FILE[7], 9, 0)

gen_white_pawns_moves(b) ==
    gen_white_pawn_single_move(b) \o gen_white_pawn_double_move(b)
    \o gen_white_pawn_left_attack(b) \o gen_white_pawn_right_attack(b)

gen_black_pawns_moves(b) ==
    gen_black_pawn_single_move(b) \o gen_black_pawn_double_move(b)
    \o gen_black_pawn_left_attack(b) \o gen_black_pawn_right_attack(b)

\* The two loops every non-pawn generator runs over a target bitboard
\* `moved`: the empty targets first, then the enemy-occupied ones
StepMoves(b, kind, color, from, moved) ==
    LET no_attack == moved \cap Not(all_pieces(b))
        attacks == moved \cap PiecesOf(b, Opposite(color))
    IN  PopLoop(no_attack, LAMBDA to : <<PlainMove(kind, color, from, to, "None")>>)
        \o PopLoop(attacks, LAMBDA to :
            <<PlainMove(kind, color, from, to, get_piece_kind(b, to))>>)

\* CastleMove that asks for a rook of either colour on the corner
CastleMoveAnyRook(b, color, right, empty, corner, from, to) ==
    IF right
       /\ \A s \in empty : get_piece(b, s).kind = "None"
       /\ get_piece(b, corner).kind = "Rook"
    THEN <<Move("King", color, from, to, TRUE, "None", FALSE, FALSE, "None")>>
    ELSE <<>>

\* One castling pseudo-move: the right is set, the squares of `empty` hold no
\* piece and `corner` holds a rook of the colour
CastleMove(b, color, right, empty, corner, from, to) ==
    IF right
       /\ \A s \in empty : get_piece(b, s).kind = "None"
       /\ get_piece(b, corner) = [kind |-> "Rook", color |-> color]
    THEN <<Move("King", color, from, to, TRUE, "None", FALSE, FALSE, "None")>>
    ELSE <<>>

gen_white_king_moves(b) ==
    LET king_bitboard == b.bb["White"]["King"]
        moved_king == KingSpots(king_bitboard)
    IN  (IF moved_king = {} THEN <<>>
         ELSE StepMoves(b, "King", "White", Lsb(king_bitboard), moved_king))
        \o CastleMove(b, "White", b.casteling_rights.white_kingside,
                      {F1, G1}, H1, E1, G1)
        \o CastleMove(b, "White", b.casteling_rights.white_queenside,
                      {B1, C1, D1}, A1, E1, C1)

gen_black_king_moves(b) ==
    LET king_bitboard == b.bb["Black"]["King"]
        moved_king == KingSpots(king_bitboard)
    IN  (IF moved_king = {} THEN <<>>
         ELSE StepMoves(b, "King", "Black", Lsb(king_bitboard), moved_king))
        \o CastleMove(b, "Black", b.casteling_rights.black_kingside,
                      {F8, G8}, H8, E8, G8)
        \o CastleMove(b, "Black", b.casteling_rights.black_queenside,
                      {B8, C8, D8}, A8, E8, C8)

\* gen_white_knight_moves / gen_black_knight_moves
gen_knights(b, color) ==
    PopLoop(b.bb[color]["Knight"], LAMBDA knight_pos :
        StepMoves(b, "Knight", color, knight_pos,
                  gen_knight_moves(square_mask(knight_pos))))

\* The loop over the targets of one slider: find_attack(..) & !own pieces
SlideMoves(b, kind, color, from, attack) ==
    PopLoop(attack \cap Not(PiecesOf(b, color)), LAMBDA to :
        <<PlainMove(kind, color, from, to, get_piece_kind(b, to))>>)

\* gen_white_bishop_moves / gen_black_bishop_moves
gen_bishops(b, color) ==
    PopLoop(b.bb[color]["Bishop"], LAMBDA bishop_pos :
        SlideMoves(b, "Bishop", color, bishop_pos, BishopAttacks(b, bishop_pos)))

\* gen_white_rook_moves / gen_black_rook_moves
gen_rooks(b, color) ==
    PopLoop(b.bb[color]["Rook"], LAMBDA rook_pos :
        SlideMoves(b, "Rook", color, rook_pos, RookAttacks(b, rook_pos)))

\* gen_white_queen_moves / gen_black_queen_moves: the rook moves, then the
\* bishop moves
gen_queens(b, color) ==
    PopLoop(b.bb[color]["Queen"], LAMBDA queen_pos :
        SlideMoves(b, "Queen", color, queen_pos, RookAttacks(b, queen_pos))
        \o SlideMoves(b, "Queen", color, queen_pos, BishopAttacks(b, queen_pos)))

gen_white_moves(b) ==
    gen_white_pawns_moves(b) \o gen_knights(b, "White") \o gen_rooks(b, "White")
    \o gen_bishops(b, "White") \o gen_queens(b, "White") \o gen_white_king_moves(b)

gen_black_moves(b) ==
    gen_black_pawns_moves(b) \o gen_knights(b, "Black") \o gen_rooks(b, "Black")
    \o gen_bishops(b, "Black") \o gen_queens(b, "Black") \o gen_black_king_moves(b)

gen_pseudo_moves(b) ==
    IF b.to_move = "White" THEN gen_white_moves(b) ELSE gen_black_moves(b)

----------------------------------------------------------------------------
(* The legality filter *)

\* CastlePath without the square the king passes over
CastlePathEnds(to) ==
    CASE to = G1 -> {E1, G1}
      [] to = C1 -> {E1, C1}
      [] to = G8 -> {E8, G8}
      [] to = C8 -> {E8, C8}

\* The squares gen_legal_moves tests for a castling move to `to`
CastlePath(to) ==
    CASE to = G1 -> {E1, F1, G1}
      [] to = C1 -> {E1, D1, C1}
      [] to = G8 -> {E8, F8, G8}
      [] to = C8 -> {E8, D8, C8}

\* can_castle of gen_legal_moves
can_castle(b, m) ==
    ~ \E s \in CastlePath(m.to) :
          IF m.to \in {G1, C1} THEN is_square_under_black_attack(b, s)
          ELSE is_square_under_white_attack(b, s)

\* KeepsMove without the is_in_check test of the board after the move
KeepsMoveNoCheckTest(b, m) ==
    LET eat_king == m.captured_piece = "King"
    IN  /\ m.casteling => can_castle(b, m)
        /\ ~eat_king

\* KeepsMove that pushes every move that passes the castling test
KeepsMoveUnfiltered(b, m) == m.casteling => can_castle(b, m)

\* Whether the loop body of gen_legal_moves pushes m on legal_move_list
KeepsMove(b, m) ==
    LET eat_king == m.captured_piece = "King"
    IN  /\ m.casteling => can_castle(b, m)
        /\ ~is_in_check(do_move(b, m), b.to_move)
        /\ ~eat_king

\* legal_move_list after gen_legal_moves on a fresh MoveGen of b
gen_legal_moves(b) ==
    SelectSeq(gen_pseudo_moves(b), LAMBDA m : KeepsMove(b, m))

----------------------------------------------------------------------------
(* Play: boards reached from Board::default() by legal moves *)

NoMove == Move("None", "None", 0, 0, FALSE, "None", FALSE, FALSE, "None")

MagicIdle == [pc |-> "idle"]

\* No from_fen, perft or load_or_generate call is in progress, no MoveGen
\* is made
NoCall == [pc |-> "idle"]

\* The number of plies the explorer plays from a start board
MaxPly == 2

\* The board after the legal move of b that goes from step[1] to step[2]
\* promoting to step[3]
PlayStep(b, step) ==
    LET legal == gen_legal_moves(b)
        i == CHOOSE j \in 1 .. Len(legal) :
                /\ legal[j].from = step[1]
                /\ legal[j].to = step[2]
                /\ legal[j].promoting_piece = step[3]
    IN  do_move(b, legal[i])

RECURSIVE PlayLine(_, _)
PlayLine(b, line) ==
    IF line = <<>> THEN b ELSE PlayLine(PlayStep(b, Head(line)), Tail(line))

\* Opening lines from Board::default(), each step <<from, to, promoting_piece>>
\* of a move that gen_legal_moves lists on the board reached so far. They lead
\* the explorer to boards where castling, en passant, promotion, the capture
\* of a rook on its corner and check are one or two plies away.
\* e2e4 e7e6 g1f3 g8f6 f1c4 f8e7 d2d4 b7b6 b1c3 c8b7 c1f4 d7d6 d1d2 b8c6 a2a3 d8d7
CastleLine ==
    << <<12, 28, "None">>, <<52, 44, "None">>, <<6, 21, "None">>, <<62, 45, "None">>,
       <<5, 26, "None">>, <<61, 52, "None">>, <<11, 27, "None">>, <<49, 41, "None">>,
       <<1, 18, "None">>, <<58, 49, "None">>, <<2, 29, "None">>, <<51, 43, "None">>,
       <<3, 11, "None">>, <<57, 42, "None">>, <<8, 16, "None">>, <<59, 51, "None">> >>

\* e2e4 a7a6 e4e5 d7d5 h2h3 d5d4 c2c4
EnPassantLine ==
    << <<12, 28, "None">>, <<48, 40, "None">>, <<28, 36, "None">>, <<51, 35, "None">>,
       <<15, 23, "None">>, <<35, 27, "None">>, <<10, 26, "None">> >>

\* h2h4 g7g5 h4g5 a7a6 g5g6 a6a5 g6g7 a5a4
PromotionLine ==
    << <<15, 31, "None">>, <<54, 38, "None">>, <<31, 38, "None">>, <<48, 40, "None">>,
       <<38, 46, "None">>, <<40, 32, "None">>, <<46, 54, "None">>, <<32, 24, "None">> >>

\* b2b3 a7a6 c1b2 a6a5 b2g7 a5a4
CornerLine ==
    << <<9, 17, "None">>, <<48, 40, "None">>, <<2, 9, "None">>, <<40, 32, "None">>,
       <<9, 54, "None">>, <<32, 24, "None">> >>

\* f2f3 e7e5 g2g4 d8h4
MateLine ==
    << <<13, 21, "None">>, <<52, 36, "None">>, <<14, 30, "None">>, <<59, 31, "None">> >>

\* e2e4 f7f6 d1h5 g7g6 h5g6
CheckLine ==
    << <<12, 28, "None">>, <<53, 45, "None">>, <<3, 39, "None">>, <<54, 46, "None">>,
       <<39, 46, "None">> >>

Lines ==
    {CastleLine, EnPassantLine, PromotionLine, CornerLine, MateLine, CheckLine}

\* The boards along a line played from b: b itself and the board after each
\* step
RECURSIVE BoardsAlong(_, _)
BoardsAlong(b, line) ==
    IF line = <<>> THEN {b}
    ELSE {b} \cup BoardsAlong(PlayStep(b, Head(line)), Tail(line))

StartBoards == UNION {BoardsAlong(DefaultBoard, line) : line \in Lines}

Init ==
    /\ board \in StartBoards
    /\ prev = board
    /\ last = NoMove
    /\ ply = 0
    /\ magic = MagicIdle
    /\ fen = NoCall
    /\ perft = NoCall
    /\ loader = NoCall
    /\ movegen = NoCall

\* One node of the perft walk: gen_legal_moves on the board, then do_move of
\* one of the legal moves
DoLegalMove ==
    /\ ply < MaxPly
    /\ \E m \in SeqRange(gen_legal_moves(board)) :
          /\ board' = do_move(board, m)
          /\ last' = m
    /\ prev' = board
    /\ ply' = ply + 1
    /\ UNCHANGED <<magic, fen, perft, loader, movegen>>

Next == DoLegalMove

Spec == Init /\ [][Next]_vars

----------------------------------------------------------------------------
(* Board::from_fen. The input is the FEN after split_whitespace: a sequence  *)
(* of fields, each a sequence of one-character strings.                      *)

Digits == {"0", "1", "2", "3", "4", "5", "6", "7", "8", "9"}

\* ch.to_digit(10)
to_digit(ch) ==
    CASE ch = "0" -> 0 [] ch = "1" -> 1 [] ch = "2" -> 2 [] ch = "3" -> 3
      [] ch = "4" -> 4 [] ch = "5" -> 5 [] ch = "6" -> 6 [] ch = "7" -> 7
      [] ch = "8" -> 8 [] ch = "9" -> 9

PieceChars == {"P", "N", "B", "R", "Q", "K", "p", "n", "b", "r", "q", "k"}

\* The (colour, kind) whose bitboard a piece letter sets
PieceOfChar(ch) ==
    CASE ch = "P" -> <<"White", "Pawn">> [] ch = "N" -> <<"White", "Knight">>
      [] ch = "B" -> <<"White", "Bishop">> [] ch = "R" -> <<"White", "Rook">>
      [] ch = "Q" -> <<"White", "Queen">> [] ch = "K" -> <<"White", "King">>
      [] ch = "p" -> <<"Black", "Pawn">> [] ch = "n" -> <<"Black", "Knight">>
      [] ch = "b" -> <<"Black", "Bishop">> [] ch = "r" -> <<"Black", "Rook">>
      [] ch = "q" -> <<"Black", "Queen">> [] ch = "k" -> <<"Black", "King">>

Ok(b) == [ok |-> TRUE, board |-> b]
Err(e) == [ok |-> FALSE, error |-> e]

\* str.split(sep): the pieces between the separators (one more than the
\* number of separators)
Split(chars, sep) ==
    LET at == SelectSeq([i \in 1 .. Len(chars) |-> i], LAMBDA i : chars[i] = sep)
        cuts == <<0>> \o at \o <<Len(chars) + 1>>
    IN  [k \in 1 .. Len(cuts) - 1 |-> SubSeq(chars, cuts[k] + 1, cuts[k + 1] - 1)]

\* The loop over the characters of one rank, from file `file` on
RECURSIVE ParseRank(_, _, _, _)
ParseRank(b, rank_idx, chars, file) ==
    IF chars = <<>>
    THEN IF file # 8 THEN Err("InvalidFEN") ELSE Ok(b)
    ELSE LET ch == Head(chars)
         IN  IF ch \in Digits
             THEN ParseRank(b, rank_idx, Tail(chars), file + to_digit(ch))
             ELSE IF file >= 8 THEN Err("InvalidFEN")
             ELSE IF ch \notin PieceChars THEN Err("InvalidFEN")
             ELSE LET sq == (7 - rank_idx) * 8 + file
                      p == PieceOfChar(ch)
                  IN  ParseRank([b EXCEPT !.bb[p[1]][p[2]] = @ \cup {sq}],
                                rank_idx, Tail(chars), file + 1)

\* The loop over the ranks, from the rank of index rank_idx (0 is rank 8)
RECURSIVE ParseRanks(_, _, _)
ParseRanks(b, ranks, rank_idx) ==
    IF rank_idx = Len(ranks) THEN Ok(b)
    ELSE LET r == ParseRank(b, rank_idx, ranks[rank_idx + 1], 0)
         IN  IF r.ok THEN ParseRanks(r.board, ranks, rank_idx + 1) ELSE r

\* Square::from_str: <file><rank>, file in a..h and rank in 1..8
FileChars == <<"a", "b", "c", "d", "e", "f", "g", "h">>
RankChars == <<"1", "2", "3", "4", "5", "6", "7", "8">>

Square_from_str(s) ==
    IF /\ Len(s) = 2
       /\ \E f \in 1 .. 8 : FileChars[f] = s[1]
       /\ \E r \in 1 .. 8 : RankChars[r] = s[2]
    THEN [ok |-> TRUE,
          square |-> 8 * ((CHOOSE r \in 1 .. 8 : RankChars[r] = s[2]) - 1)
                     + (CHOOSE f \in 1 .. 8 : FileChars[f] = s[1]) - 1]
    ELSE [ok |-> FALSE, square |-> 0]

\* rights.contains(ch)
Contains(chars, ch) == \E i \in 1 .. Len(chars) : chars[i] = ch

from_fen(parts) ==
    IF Len(parts) < 4 THEN Err("InvalidFEN")
    ELSE LET ranks == Split(parts[1], "/")
         IN  IF Len(ranks) # 8 THEN Err("InvalidFEN")
             ELSE LET placed == ParseRanks(ZeroBoard, ranks, 0)
                      rights == parts[3]
                      ep == parts[4]
                      sq == Square_from_str(ep)
                  IN  IF ~placed.ok THEN placed
                      ELSE IF parts[2] \notin {<<"w">>, <<"b">>} THEN Err("InvalidFEN")
                      ELSE IF ep # <<"-">> /\ ~sq.ok THEN Err("InvalidSquare")
                      ELSE Ok([placed.board EXCEPT
                                !.to_move = IF parts[2] = <<"w">> THEN "White" ELSE "Black",
                                !.casteling_rights =
                                    Casteling(Contains(rights, "K"), Contains(rights, "Q"),
                                              Contains(rights, "k"), Contains(rights, "q")),
                                !.en_passant = IF ep = <<"-">> THEN {} ELSE {sq.square}])

----------------------------------------------------------------------------
(* tests::perft from Board::default(), one step of the recursion at a time *)

\* The greatest depth perft is called with
PerftDepth == 4

\* The activation of perft(board, depth) for depth > 0, when its loop
\* starts: nodes = 0 and the legal moves of the board still to visit
PerftFrame(b, depth) ==
    [board |-> b, depth |-> depth, moves |-> gen_legal_moves(b), nodes |-> 0]

PerftInit ==
    /\ magic = MagicIdle
    /\ board = DefaultBoard
    /\ prev = DefaultBoard
    /\ last = NoMove
    /\ ply = 0
    /\ fen = NoCall
    /\ perft \in {[pc |-> "called", depth |-> depth, stack |-> <<>>, nodes |-> 0] :
                     depth \in 1 .. PerftDepth}
    /\ loader = NoCall
    /\ movegen = NoCall

\* perft(&b, depth) is entered: gen_legal_moves on the board
PerftEnter ==
    /\ perft.pc = "called"
    /\ perft' = [perft EXCEPT !.pc = "loop",
                              !.stack = <<PerftFrame(board, perft.depth)>>]
    /\ UNCHANGED <<board, prev, last, ply, magic, fen, loader, movegen>>

\* One turn of the loop at depth 1: new_board = board.clone().do_move(mv) and
\* perft(&new_board, 0), which returns 1 at once
PerftLeaf ==
    /\ perft.pc = "loop"
    /\ LET top == perft.stack[Len(perft.stack)]
       IN  /\ top.moves # <<>>
           /\ top.depth = 1
           /\ do_move(top.board, Head(top.moves)).to_move = Opposite(top.board.to_move)
           /\ perft' = [perft EXCEPT !.stack[Len(perft.stack)] =
                           [top EXCEPT !.moves = Tail(top.moves),
                                       !.nodes = top.nodes + 1]]
    /\ UNCHANGED <<board, prev, last, ply, magic, fen, loader, movegen>>

\* One turn of the loop at a depth above 1: new_board, and perft(&new_board,
\* depth - 1) is entered
PerftDescend ==
    /\ perft.pc = "loop"
    /\ LET top == perft.stack[Len(perft.stack)]
           new_board == do_move(top.board, Head(top.moves))
       IN  /\ top.moves # <<>>
           /\ top.depth > 1
           /\ perft' = [perft EXCEPT !.stack =
                           Append([perft.stack EXCEPT ![Len(perft.stack)].moves =
                                       Tail(top.moves)],
                                  PerftFrame(new_board, top.depth - 1))]
    /\ UNCHANGED <<board, prev, last, ply, magic, fen, loader, movegen>>

\* The loop is over: `nodes` is returned, and added to the caller's nodes
PerftReturn ==
    /\ perft.pc = "loop"
    /\ LET n == Len(perft.stack)
           top == perft.stack[n]
       IN  /\ top.moves = <<>>
           /\ IF n = 1
              THEN perft' = [perft EXCEPT !.pc = "returned", !.stack = <<>>,
                                          !.nodes = top.nodes]
              ELSE perft' = [perft EXCEPT !.stack =
                               [SubSeq(perft.stack, 1, n - 1) EXCEPT
                                   ![n - 1].nodes = @ + top.nodes]]
    /\ UNCHANGED <<board, prev, last, ply, magic, fen, loader, movegen>>

PerftNext == PerftEnter \/ PerftLeaf \/ PerftDescend \/ PerftReturn

PerftSpec == PerftInit /\ [][PerftNext]_vars

----------------------------------------------------------------------------
(* The FENs of the repository's tests, and FENs made for the castling cases *)

\* r3k2r/p1ppqpb1/bn2pnp1/3PN3/1p2P3/2N2Q1p/PPPBBPPP/R3K2R w KQkq -   (tests::test_perft2)
FenKiwipete ==
    << <<"r", "3", "k", "2", "r", "/", "p", "1", "p", "p", "q", "p", "b",
         "1", "/", "b", "n", "2", "p", "n", "p", "1", "/", "3", "P", "N",
         "3", "/", "1", "p", "2", "P", "3", "/", "2", "N", "2", "Q", "1",
         "p", "/", "P", "P", "P", "B", "B", "P", "P", "P", "/", "R", "3",
         "K", "2", "R">>,
       <<"w">>,
       <<"K", "Q", "k", "q">>,
       <<"-">> >>

\* 8/2p5/3p4/KP5r/1R3p1k/8/4P1P1/8 w - - 0 1   (tests::test_perft3)
FenPerft3 ==
    << <<"8", "/", "2", "p", "5", "/", "3", "p", "4", "/", "K", "P", "5",
         "r", "/", "1", "R", "3", "p", "1", "k", "/", "8", "/", "4", "P",
         "1", "P", "1", "/", "8">>,
       <<"w">>,
       <<"-">>,
       <<"-">>,
       <<"0">>,
       <<"1">> >>

\* r3k2r/Pppp1ppp/1b3nbN/nP6/BBP1P3/q4N2/Pp1P2PP/R2Q1RK1 w kq - 0 1   (tests::test_perft4)
FenPerft4 ==
    << <<"r", "3", "k", "2", "r", "/", "P", "p", "p", "p", "1", "p", "p",
         "p", "/", "1", "b", "3", "n", "b", "N", "/", "n", "P", "6", "/",
         "B", "B", "P", "1", "P", "3", "/", "q", "4", "N", "2", "/", "P",
         "p", "1", "P", "2", "P", "P", "/", "R", "2", "Q", "1", "R", "K", "1">>,
       <<"w">>,
       <<"k", "q">>,
       <<"-">>,
       <<"0">>,
       <<"1">> >>

\* rnbq1k1r/pp1Pbppp/2p5/8/2B5/8/PPP1NnPP/RNBQK2R w KQ - 1 8   (tests::test_perft5)
FenPerft5 ==
    << <<"r", "n", "b", "q", "1", "k", "1", "r", "/", "p", "p", "1", "P",
         "b", "p", "p", "p", "/", "2", "p", "5", "/", "8", "/", "2", "B",
         "5", "/", "8", "/", "P", "P", "P", "1", "N", "n", "P", "P", "/",
         "R", "N", "B", "Q", "K", "2", "R">>,
       <<"w">>,
       <<"K", "Q">>,
       <<"-">>,
       <<"1">>,
       <<"8">> >>

\* k7/8/8/8/8/8/8/4K2R w K - 0 1   (tests::test_castle_kingside)
FenCastleKingside ==
    << <<"k", "7", "/", "8", "/", "8", "/", "8", "/", "8", "/", "8", "/",
         "8", "/", "4", "K", "2", "R">>,
       <<"w">>,
       <<"K">>,
       <<"-">>,
       <<"0">>,
       <<"1">> >>

\* krr5/8/8/8/8/8/8/R3K3 w HQ - 0 1   (tests::test_cant_castle_queenside)
FenCantCastleQueenside ==
    << <<"k", "r", "r", "5", "/", "8", "/", "8", "/", "8", "/", "8", "/",
         "8", "/", "8", "/", "R", "3", "K", "3">>,
       <<"w">>,
       <<"H", "Q">>,
       <<"-">>,
       <<"0">>,
       <<"1">> >>

\* k7/8/8/4Pp2/8/8/8/K7 w - f6 0 1   (tests::test_white_pawn_enpassant_1)
FenEnPassantWhite ==
    << <<"k", "7", "/", "8", "/", "8", "/", "4", "P", "p", "2", "/", "8",
         "/", "8", "/", "8", "/", "K", "7">>,
       <<"w">>,
       <<"-">>,
       <<"f", "6">>,
       <<"0">>,
       <<"1">> >>

\* k7/8/8/8/3Pp3/8/8/K7 b - d3 0 1   (tests::test_black_pawn_enpassant_1)
FenEnPassantBlack ==
    << <<"k", "7", "/", "8", "/", "8", "/", "8", "/", "3", "P", "p", "3",
         "/", "8", "/", "8", "/", "K", "7">>,
       <<"b">>,
       <<"-">>,
       <<"d", "3">>,
       <<"0">>,
       <<"1">> >>

\* k6b/Q7/8/8/8/8/8/R3K3 b Q - 0 1   (tests::test_check_mate)
FenCheckMate ==
    << <<"k", "6", "b", "/", "Q", "7", "/", "8", "/", "8", "/", "8", "/",
         "8", "/", "8", "/", "R", "3", "K", "3">>,
       <<"b">>,
       <<"Q">>,
       <<"-">>,
       <<"0">>,
       <<"1">> >>

\* 1r5k/8/8/8/8/8/8/R3K3 w Q - 0 1
FenAttackB1 ==
    << <<"1", "r", "5", "k", "/", "8", "/", "8", "/", "8", "/", "8", "/",
         "8", "/", "8", "/", "R", "3", "K", "3">>,
       <<"w">>,
       <<"Q">>,
       <<"-">>,
       <<"0">>,
       <<"1">> >>

\* 5r1k/8/8/8/8/8/8/4K2R w K - 0 1
FenAttackF1 ==
    << <<"5", "r", "1", "k", "/", "8", "/", "8", "/", "8", "/", "8", "/",
         "8", "/", "8", "/", "4", "K", "2", "R">>,
       <<"w">>,
       <<"K">>,
       <<"-">>,
       <<"0">>,
       <<"1">> >>

\* 6rk/8/8/8/8/8/8/4K2R w K - 0 1
FenAttackG1 ==
    << <<"6", "r", "k", "/", "8", "/", "8", "/", "8", "/", "8", "/", "8",
         "/", "8", "/", "4", "K", "2", "R">>,
       <<"w">>,
       <<"K">>,
       <<"-">>,
       <<"0">>,
       <<"1">> >>

\* 4r2k/8/8/8/8/8/8/R3K2R w KQ - 0 1
FenAttackE1 ==
    << <<"4", "r", "2", "k", "/", "8", "/", "8", "/", "8", "/", "8", "/",
         "8", "/", "8", "/", "R", "3", "K", "2", "R">>,
       <<"w">>,
       <<"K", "Q">>,
       <<"-">>,
       <<"0">>,
       <<"1">> >>

\* r3k2r/8/8/8/8/8/8/1R2K1R1 b kq - 0 1
FenAttackB8G8 ==
    << <<"r", "3", "k", "2", "r", "/", "8", "/", "8", "/", "8", "/", "8",
         "/", "8", "/", "8", "/", "1", "R", "2", "K", "1", "R", "1">>,
       <<"b">>,
       <<"k", "q">>,
       <<"-">>,
       <<"0">>,
       <<"1">> >>

\* r3k2r/8/8/8/8/8/8/3RK3 b kq - 0 1
FenAttackD8 ==
    << <<"r", "3", "k", "2", "r", "/", "8", "/", "8", "/", "8", "/", "8",
         "/", "8", "/", "8", "/", "3", "R", "K", "3">>,
       <<"b">>,
       <<"k", "q">>,
       <<"-">>,
       <<"0">>,
       <<"1">> >>

\* k7/8/8/8/8/8/8/K7 w - e4 0 1
FenStrayEnPassant ==
    << <<"k", "7", "/", "8", "/", "8", "/", "8", "/", "8", "/", "8", "/",
         "8", "/", "K", "7">>,
       <<"w">>,
       <<"-">>,
       <<"e", "4">>,
       <<"0">>,
       <<"1">> >>

\* r3k2r/1P4P1/8/8/8/8/1p4p1/R3K2R w KQkq - 0 1
FenPromoteCorner ==
    << <<"r", "3", "k", "2", "r", "/", "1", "P", "4", "P", "1", "/", "8", "/", "8", "/", "8", "/", "8", "/", "1",
          "p", "4", "p", "1", "/", "R", "3", "K", "2", "R">>,
       <<"w">>,
       <<"K", "Q", "k", "q">>,
       <<"-">>,
       <<"0">>,
       <<"1">> >>

Fens ==
    {FenKiwipete, FenPerft3, FenPerft4, FenPerft5, FenCastleKingside,
     FenCantCastleQueenside, FenEnPassantWhite, FenEnPassantBlack,
     FenCheckMate, FenAttackB1, FenAttackF1, FenAttackG1, FenAttackE1,
     FenAttackB8G8, FenAttackD8, FenStrayEnPassant, FenPromoteCorner}

FenBoards == {from_fen(f).board : f \in {g \in Fens : from_fen(g).ok}}

FenInit ==
    /\ board \in FenBoards
    /\ prev = board
    /\ last = NoMove
    /\ ply = 0
    /\ magic = MagicIdle
    /\ fen = NoCall
    /\ perft = NoCall
    /\ loader = NoCall
    /\ movegen = NoCall

FenSpec == FenInit /\ [][Next]_vars

----------------------------------------------------------------------------
(* Board::from_fen on texts, well formed and not *)

\* fen.split_whitespace().collect(): the non-empty runs between spaces
split_whitespace(chars) == SelectSeq(Split(chars, " "), LAMBDA p : p # <<>>)

\* The pieces joined by sep
RECURSIVE JoinWith(_, _)
JoinWith(pieces, sep) ==
    IF Len(pieces) = 0 THEN <<>>
    ELSE IF Len(pieces) = 1 THEN pieces[1]
    ELSE pieces[1] \o <<sep>> \o JoinWith(Tail(pieces), sep)

Rank8 == <<"8">>
RankBlackKing == <<"k", "7">>
RankWhiteKing == <<"K", "7">>

\* rnbqkbnr/pppppppp/8/8/8/8/PPPPPPPP/RNBQKBNR
StartPlacement ==
    JoinWith(<< <<"r", "n", "b", "q", "k", "b", "n", "r">>,
                <<"p", "p", "p", "p", "p", "p", "p", "p">>,
                Rank8, Rank8, Rank8, Rank8,
                <<"P", "P", "P", "P", "P", "P", "P", "P">>,
                <<"R", "N", "B", "Q", "K", "B", "N", "R">> >>, "/")

\* k7/8/8/8/8/8/8/K7 with its first rank replaced
KingsPlacement(first) ==
    JoinWith(<<first, Rank8, Rank8, Rank8, Rank8, Rank8, Rank8, RankWhiteKing>>, "/")

\* Placement fields: two well formed ones, a rank written with the digit 0,
\* seven ranks, nine ranks, a rank of 7 squares, a rank of 9 squares, a piece
\* after a full rank, a letter that is no piece, an empty rank
ParsePlacements ==
    { StartPlacement,
      KingsPlacement(RankBlackKing),
      KingsPlacement(<<"k", "0", "7">>),
      JoinWith(<<RankBlackKing, Rank8, Rank8, Rank8, Rank8, Rank8, RankWhiteKing>>, "/"),
      JoinWith(<<RankBlackKing, Rank8, Rank8, Rank8, Rank8, Rank8, Rank8, Rank8,
                 RankWhiteKing>>, "/"),
      KingsPlacement(<<"k", "6">>),
      KingsPlacement(<<"k", "8">>),
      KingsPlacement(<<"8", "k">>),
      KingsPlacement(<<"x", "7">>),
      KingsPlacement(<<>>) }

ParseColours == {<<"w">>, <<"b">>, <<"x">>}
ParseRights == {<<"K", "Q", "k", "q">>, <<"-">>, <<"K", "x">>}
ParseEnPassants ==
    {<<"-">>, <<"e", "3">>, <<"z", "9">>, <<"e", "9">>, <<"e">>, <<"e", "3", "x">>}
ParseTails == {<<>>, << <<"0">>, <<"1">> >>}

\* The texts from_fen is called with: four or six fields, three fields, and
\* the starting position with doubled spaces
ParseInputs ==
    {JoinWith(<<p, c, r, e>> \o tail, " ") :
        p \in ParsePlacements, c \in ParseColours, r \in ParseRights,
        e \in ParseEnPassants, tail \in ParseTails}
    \cup {JoinWith(<<p, c, r>>, " ") :
        p \in ParsePlacements, c \in ParseColours, r \in ParseRights}
    \cup {<<" ">> \o JoinWith(<<StartPlacement, <<>>, <<"w">>, <<"K", "Q", "k", "q">>,
                                <<"-">>, <<"0">>, <<"1">> >>, " ")}

\* rnbqkbnr/pppppppp/8/8/8/8/PPPPPPPP/RNBQKBNR w KQkq - 0 1
StartFen ==
    JoinWith(<<StartPlacement, <<"w">>, <<"K", "Q", "k", "q">>, <<"-">>,
               <<"0">>, <<"1">> >>, " ")

ParseInit ==
    /\ board = DefaultBoard
    /\ prev = DefaultBoard
    /\ last = NoMove
    /\ ply = 0
    /\ magic = MagicIdle
    /\ fen \in {[pc |-> "called", text |-> text] : text \in ParseInputs}
    /\ perft = NoCall
    /\ loader = NoCall
    /\ movegen = NoCall

\* Board::from_fen(fen)
Parse ==
    /\ fen.pc = "called"
    /\ fen' = [pc |-> "returned", text |-> fen.text,
               result |-> from_fen(split_whitespace(fen.text))]
    /\ UNCHANGED <<board, prev, last, ply, magic, perft, loader, movegen>>

ParseNext == Parse

ParseSpec == ParseInit /\ [][ParseNext]_vars

----------------------------------------------------------------------------
(* Magic tables: the magic numbers, and generate and find_attack called      *)

\* Values that random::<u64>() & random::<u64>() & random::<u64>() can take,
\* one for every square a bishop entry is generated for and one for every
\* square of RookSquares, least significant byte first.  Each passes for its
\* own square.
BishopMagicNumbers ==
    <<<<136,  64,  65,  16,  72,  34, 134,   0>>,
      <<  0,   0,   2,   2,   9,  20,  34,   0>>,
      <<  3,   0,   4, 161,  32,   0,  80,   0>>,
      <<  0,  32,   0, 160,   1,   1,   1,   0>>,
      <<  4,   0,   0,   0,  40,   1,   9,   3>>,
      <<128,   8,   0,  64,  80,  64,  32,   0>>,
      <<  4,   0, 132, 128, 128,   1,  36,  64>>,
      <<  0,   1,  32, 196,   0, 194,   8,   0>>,
      <<  0,  90,   0,   2,  66, 192,   0, 128>>,
      << 16,  68,   0,  17,  96,   0,   0,  32>>,
      <<  0,  50,   8,  12,  12,  10,   0,   0>>,
      << 18,  32,   6,  16,  64, 129,   0,   0>>,
      <<129,   0,   0,  72,   4,   3,   0,   0>>,
      <<  0,   0,   1,   1, 129,   2,   0,  16>>,
      <<  0, 192,   0, 137,  32,   2,  16,   0>>,
      <<  0,  16,  33, 132, 128,   0,   0, 128>>,
      <<  0,  72,   2,   8,   4,   6,   8, 128>>,
      << 96, 104,  68,  32,   0,  32,   1, 144>>,
      <<  8,  16,   2,   0,   2,   0,  80,  32>>,
      <<  2,   0,   1,   4,   3,   8,   0,   0>>,
      <<  0,   0,   4,  32,  20,   4,  81,  18>>,
      << 64,  17,   4, 128,   0,   4,   0,   8>>,
      << 65,  36,   0,   4,   8,   8,  65,  64>>,
      <<  0,   1,   1,   1,  66,   8,   0,   0>>,
      <<128,   0, 166,  18,   0, 115,   3, 128>>,
      <<128,  18,   0,  96,  68,   0,  82,   0>>,
      << 16,   8,   0,  34, 128,  20,  32,   0>>,
      <<  4,   0,  66,   9, 128,   0,   2,   0>>,
      <<  0,   2,  33,   1,   2,   2,   0,   0>>,
      <<  0,  16,   0,   2, 192,  96,  16,   0>>,
      <<  0,  16,  32, 128, 148, 128,   0,   0>>,
      <<  0,   4,  17,   0,  32,  20,   0,  32>>,
      << 10,   2,  38,   0,  16,  80,   0,   0>>,
      << 64,   8,  32,   4,  16, 128,   8,   0>>,
      <<  0,  19,   0,  25,   5,   0,  20,  32>>,
      <<  0,  36,   0,   0,  84,   0,   0,   2>>,
      <<  0,   9,   0,   0,   1,  20,  80,   0>>,
      <<  0,  20, 128,   8,   0, 162, 192,  17>>,
      <<  0,   4,   8,  32,   2,   8,   3,   0>>,
      << 64,  52,  16, 128,  27,   0,   4,  64>>,
      <<  0,   2,   1,  36,   8,   1,  17,  16>>,
      <<  0,   4,   0,   2,   4,   4,   0,   0>>,
      <<  0,  16,  80,  20,   8,   0,  65,   4>>,
      <<128,   8, 129,  32,   4,   0,  32,  48>>,
      <<  0, 132,   0,  18,  68,   0,   0,   3>>,
      << 16,   5,  33,  34,   8,   2,   1, 128>>,
      <<128, 129,  17,   0,  34,  32,   0,   0>>,
      << 64,   0,  10,  96,   0,  20,  36,   0>>,
      <<  0,   0,   4,  67,   0,   1,   2,   4>>,
      <<  0,   4,  16,   0,   8,  32,   0,  34>>,
      <<  0,   2,  36,   3,   6,   0,  16,   1>>,
      <<  0,   0, 154,  16,   0,   2,   0,  64>>,
      <<  0,  16,  42,   0,  32,   0,  16, 160>>,
      <<  0,  36,   0,  16,  68,  64,   1,  64>>,
      <<  0,  32,   2,  67,   6,  66,   4,   0>>,
      << 16, 128,   4,  38,  65,  64,   1, 128>>,
      <<  0,   2,  20,   1,   4, 132,   0,   4>>,
      <<128,   4, 117,  18,  32,   0, 192,  80>>,
      <<  0,   2,  66,  16,   2,   8,   0,   0>>,
      << 65,   2,  19,   0, 192,   8,  66,  64>>,
      <<128,   0,   2, 100,   0,  64,   0, 131>>,
      << 64,   0, 129,  40,  32,   0,  65,  80>>,
      <<  0, 162,  68,   5,   4,  49,  12, 129>>,
      << 80, 147, 137,   0,  16,   1,  32,   0>>>>

RookMagicNumbers ==
    (A1 :> <<  0,  68,   8, 192,   0,   1, 120,   0>>)
    @@ (E1 :> << 18,   1, 135,   4, 208,   0,   0,  98>>)
    @@ (D4 :> <<  4,   2,   1,  32, 160,   0,   0,  68>>)
    @@ (E5 :> << 64,   1,  16,  16,   0, 141,  37,   0>>)
    @@ (D8 :> <<230,   0,   0, 134,  16,  40,   0, 192>>)
    @@ (H8 :> << 18,  65, 128,  16,   8,   0,   0,   2>>)

\* The squares a rook entry is generated for
RookSquares == {A1, E1, D4, E5, D8, H8}

\* The squares a bishop entry is generated for
BishopSquares == Squares

\* The most bits a looked-up blocker set has
MaxBlockers == 2

MagicSquares(kind) == IF kind = "Rook" THEN RookSquares ELSE BishopSquares

MagicNumber(kind, square) ==
    IF kind = "Rook" THEN RookMagicNumbers[square]
    ELSE BishopMagicNumbers[square + 1]

\* The draws of `magic` the loop of generate(square, kind) makes: the number
\* of the table for the square, and the one for the opposite square, which
\* most squares reject.
MagicCandidates(kind, square) ==
    {MagicNumber(kind, square), MagicNumber(kind, 63 - square)}

\* load_or_generate calls MagicEntry::generate(square, kind) for a table
\* that has no file: one call for each square of each kind.
MagicInit ==
    /\ board = DefaultBoard
    /\ prev = DefaultBoard
    /\ last = NoMove
    /\ ply = 0
    /\ \E kind \in {"Rook", "Bishop"} :
        \E square \in MagicSquares(kind) :
            magic = [pc |-> "called", square |-> square, kind |-> kind]
    /\ fen = NoCall
    /\ perft = NoCall
    /\ loader = NoCall
    /\ movegen = NoCall

\* MagicEntry::generate(square, kind): the loop draws magic numbers until a
\* pass succeeds and returns the entry of that pass.
Generate ==
    /\ magic.pc = "called"
    /\ \E magic_number \in MagicCandidates(magic.kind, magic.square) :
        LET pairs == PassPairs(magic.square, magic.kind, magic_number)
        IN  /\ PassSuccess(pairs)
            /\ magic' = [pc |-> "ready",
                         square |-> magic.square, kind |-> magic.kind,
                         entry |-> MagicEntry(magic.square, magic.kind,
                                              magic_number, pairs),
                         blockers |-> {}, attack |-> {}]
    /\ UNCHANGED <<board, prev, last, ply, fen, perft, loader, movegen>>

\* entry.find_attack(blockers) for a blocker set cut to the mask, as
\* gen_rooks, gen_bishops, gen_queens and the attack queries call it
Lookup ==
    /\ magic.pc = "ready"
    /\ \E blockers \in SUBSET mask_of(magic.square, magic.kind) :
        /\ Cardinality(blockers) <= MaxBlockers
        /\ magic' = [magic EXCEPT !.pc = "found", !.blockers = blockers,
                                  !.attack = find_attack(magic.entry, blockers)]
    /\ UNCHANGED <<board, prev, last, ply, fen, perft, loader, movegen>>

MagicNext == Generate \/ Lookup

MagicSpec == MagicInit /\ [][MagicNext]_vars

----------------------------------------------------------------------------
(* The hash of generate and find_attack on any u64 of blockers *)

\* shift taken one short: 63 - mask.count_ones()
shift_of_one_short(square, kind) == 63 - count_ones(mask_of(square, kind))

\* let shift = 64 - mask.count_ones()
shift_of(square, kind) == 64 - count_ones(mask_of(square, kind))

\* The set bits of a u64 kept as eight bytes
BitsOfU64(n) == {i \in 0 .. 63 : (n[(i \div 8) + 1] \div (2 ^ (i % 8))) % 2 = 1}

\* u16::try_from(x): Ok for a value below 2^16, given by its set bits
u16_try_from(bits) == bits \subseteq 0 .. 15

\* u8::try_from(shift)
u8_try_from(n) == n \in 0 .. 255

\* Values of `blockers`: the empty and the full board, corners, a rank, a
\* file, the squares of one colour, and the mask of the square and its
\* complement
HashBlockers(square, kind) ==
    {{}, Squares, {A1}, {H8}, {A1, H8}, MASK_RANK[7], Not(CLEAR_FILE[7]),
     {s \in Squares : (RankOf(s) + FileOf(s)) % 2 = 0},
     mask_of(square, kind), Not(mask_of(square, kind))}

\* Values of `magic`, whether a pass over them succeeds or not: any u64 is
\* hashed with
HashNumbers(square) ==
    {BishopMagicNumbers[square + 1], BishopMagicNumbers[64 - square]}

HashInit ==
    /\ board = DefaultBoard
    /\ prev = DefaultBoard
    /\ last = NoMove
    /\ ply = 0
    /\ \E kind \in {"Rook", "Bishop"} :
        \E square \in Squares :
            \E magic_number \in HashNumbers(square) :
                \E blockers \in HashBlockers(square, kind) :
                    magic = [pc |-> "hashing", square |-> square, kind |-> kind,
                             magic |-> magic_number, blockers |-> blockers]
    /\ fen = NoCall
    /\ perft = NoCall
    /\ loader = NoCall
    /\ movegen = NoCall

\* (blockers.wrapping_mul(magic)) >> shift, then u16::try_from of it, and
\* u8::try_from(shift)
Hash ==
    /\ magic.pc = "hashing"
    /\ LET shift == shift_of(magic.square, magic.kind)
           shifted == Shr(BitsOfU64(wrapping_mul(magic.blockers, magic.magic)), shift)
       IN  magic' = [pc |-> (IF u16_try_from(shifted) /\ u8_try_from(shift)
                             THEN "hashed" ELSE "panicked"),
                     square |-> magic.square, kind |-> magic.kind,
                     magic |-> magic.magic, blockers |-> magic.blockers,
                     shift |-> shift, index |-> shifted]
    /\ UNCHANGED <<board, prev, last, ply, fen, perft, loader, movegen>>

HashSpec == HashInit /\ [][Hash]_vars

----------------------------------------------------------------------------
(* Two processes, each with its own magic tables, generating the moves of   *)
(* the same board                                                            *)

\* Further values the random draws of generate can take: a second number
\* that passes for the square, for the squares the sliding pieces of
\* TableBoards stand on
SecondBishopMagicNumbers ==
    (3 :> << 32,   4,   2,  64,   0,   2, 130,   1>>) @@
    (11 :> << 16,   0, 160,  44,  16, 134,   0,   0>>) @@
    (12 :> <<  1,  12,  72,  69,  38,   0,   0, 128>>) @@
    (16 :> <<  0,  68,  12,  18,   8,   0,  64,   0>>) @@
    (21 :> <<  0,   8,   0, 196,   0,   8, 128,   0>>) @@
    (24 :> <<144,   0,  16,  10,   2, 192,  10,   0>>) @@
    (25 :> <<  0,  20,  66,   0,   1, 138,   0,  64>>) @@
    (40 :> << 64,  34,   0,   8, 136,  32,   1,   0>>) @@
    (41 :> <<  0,  65,   2,  68,   0,   6,   0,  32>>) @@
    (46 :> <<  0,   3,  10,   0, 148,   8,   2,   0>>) @@
    (52 :> <<148, 144,  64,  64,   0,  64,  17,   1>>) @@
    (54 :> << 32,   4, 131, 160,  64,   0,  32,  33>>)

SecondRookMagicNumbers ==
    (0 :> <<  0,  64,   0, 128,   0,   1, 194,   0>>) @@
    (63 :> <<162,   9,   0,  49, 129,   0,   0,   8>>)

SecondMagicNumber(kind, square) ==
    IF kind = "Rook" THEN SecondRookMagicNumbers[square]
    ELSE SecondBishopMagicNumbers[square]

\* The draws of `magic` in the loop of generate(square, kind), over the two
\* processes
TableCandidates(kind, square) ==
    {MagicNumber(kind, square), SecondMagicNumber(kind, square)}

TableBoards == {from_fen(FenKiwipete).board, from_fen(FenPerft4).board}

\* The table entries that lookups on board b go to: <<kind, square>> for
\* the squares of its bishops, rooks and queens
TableEntries(b) ==
    LET on(kind) == b.bb["White"][kind] \cup b.bb["Black"][kind]
    IN  {<<"Bishop", s>> : s \in (on("Bishop") \cup on("Queen"))
                                  \cap DOMAIN SecondBishopMagicNumbers}
        \cup {<<"Rook", s>> : s \in (on("Rook") \cup on("Queen"))
                                    \cap DOMAIN SecondRookMagicNumbers}

TableInit ==
    /\ board \in TableBoards
    /\ prev = board
    /\ last = NoMove
    /\ ply = 0
    /\ \E e \in TableEntries(board) :
        magic = [pc |-> "called", square |-> e[2], kind |-> e[1]]
    /\ fen = NoCall
    /\ perft = NoCall
    /\ loader = NoCall
    /\ movegen = NoCall

\* MagicEntry::generate(square, kind) in each of the two processes: each
\* returns the entry of a magic number that passed, and the two differ
GenerateTables ==
    /\ magic.pc = "called"
    /\ \E magic_number \in TableCandidates(magic.kind, magic.square) :
        LET pairs == PassPairs(magic.square, magic.kind, magic_number)
            other_number ==
                CHOOSE n \in TableCandidates(magic.kind, magic.square) :
                    n # magic_number
            other_pairs == PassPairs(magic.square, magic.kind, other_number)
        IN  /\ PassSuccess(pairs)
            /\ PassSuccess(other_pairs)
            /\ magic' = [pc |-> "first",
                         square |-> magic.square, kind |-> magic.kind,
                         entry |-> MagicEntry(magic.square, magic.kind,
                                              magic_number, pairs),
                         other |-> MagicEntry(magic.square, magic.kind,
                                              other_number, other_pairs),
                         moves |-> <<>>, other_moves |-> <<>>]
    /\ UNCHANGED <<board, prev, last, ply, fen, perft, loader, movegen>>

\* gen_legal_moves(board) in the first process
FirstRun ==
    /\ magic.pc = "first"
    /\ \E b \in {WithMagics(board, magic.kind, magic.square, magic.entry)} :
        magic' = [magic EXCEPT !.pc = "ran", !.moves = gen_legal_moves(b)]
    /\ UNCHANGED <<board, prev, last, ply, fen, perft, loader, movegen>>

\* The second process starts: its table holds the other entry
SecondProcess ==
    /\ magic.pc = "ran"
    /\ magic' = [magic EXCEPT !.pc = "second",
                              !.entry = magic.other, !.other = magic.entry]
    /\ UNCHANGED <<board, prev, last, ply, fen, perft, loader, movegen>>

\* gen_legal_moves(board) in the second process
SecondRun ==
    /\ magic.pc = "second"
    /\ \E b \in {WithMagics(board, magic.kind, magic.square, magic.entry)} :
        magic' = [magic EXCEPT !.pc = "done", !.other_moves = gen_legal_moves(b)]
    /\ UNCHANGED <<board, prev, last, ply, fen, perft, loader, movegen>>

TableNext == GenerateTables \/ FirstRun \/ SecondProcess \/ SecondRun

TableSpec == TableInit /\ [][TableNext]_vars

----------------------------------------------------------------------------
(* load_or_generate: the magic table of one kind, from its file or generated *)

\* The greatest number of entries a decodable file holds
MaxFileEntries == 66

\* The number of processes that start, one after the other, in the same
\* working directory
MaxProcesses == 2

\* What load_or_generate can find at its path: no file, a file that cannot
\* be read, bytes that do not decode to a Vec<MagicEntry>, or bytes that
\* decode to a Vec of `entries` entries
Files ==
    {[kind |-> "absent"], [kind |-> "unreadable"], [kind |-> "corrupt"]}
    \cup {[kind |-> "decodable", entries |-> n] : n \in 0 .. MaxFileEntries}

LoadInit ==
    /\ magic = MagicIdle
    /\ board = DefaultBoard
    /\ prev = DefaultBoard
    /\ last = NoMove
    /\ ply = 0
    /\ fen = NoCall
    /\ perft = NoCall
    /\ loader \in {[pc |-> "called", process |-> 1, path |-> path,
                       file |-> file, found |-> file] :
                      path \in {"rook_magics.bin", "bishop_magics.bin"},
                      file \in Files}
    /\ movegen = NoCall

\* load_or_generate(path, kind), at the first use of ROOK_MAGICS or
\* BISHOP_MAGICS: the three expect calls of the branch of an existing file,
\* or the table generated and written
LoadOrGenerate ==
    /\ loader.pc = "called"
    /\ loader' =
        IF loader.file.kind # "absent"
        THEN IF loader.file.kind = "unreadable"
             THEN [loader EXCEPT !.pc = "panicked"]
             ELSE IF loader.file.kind = "corrupt"
             THEN [loader EXCEPT !.pc = "panicked"]
             ELSE IF loader.file.entries # 64
             THEN [loader EXCEPT !.pc = "panicked"]
             ELSE [loader EXCEPT !.pc = "loaded"]
        ELSE [loader EXCEPT !.pc = "generated",
                            !.file = [kind |-> "decodable", entries |-> 64]]
    /\ UNCHANGED <<board, prev, last, ply, magic, fen, perft, movegen>>

\* The next process in the same working directory uses the table
NextProcess ==
    /\ loader.pc \in {"panicked", "loaded", "generated"}
    /\ loader.process < MaxProcesses
    /\ loader' = [loader EXCEPT !.pc = "called", !.process = @ + 1,
                                !.found = loader.file]
    /\ UNCHANGED <<board, prev, last, ply, magic, fen, perft, movegen>>

LoadNext == LoadOrGenerate \/ NextProcess

LoadSpec == LoadInit /\ [][LoadNext]_vars

----------------------------------------------------------------------------
(* The MoveGen object: its two lists over the calls made on it *)

\* The most calls made on one MoveGen
MaxCalls == 2

\* MoveGen::new(&board)
MoveGen_new ==
    [pc |-> "new", pseudo_move_list |-> <<>>, legal_move_list |-> <<>>,
     calls |-> <<>>]

\* Positions whose castling rights may disagree with the pieces: from_fen
\* sets the rights from the third field alone
\* r3k2r/8/8/8/8/8/8/R3K2R w Kq - 0 1
FenHalfRightsWhite ==
    << <<"r", "3", "k", "2", "r", "/", "8", "/", "8", "/", "8", "/", "8",
         "/", "8", "/", "8", "/", "R", "3", "K", "2", "R">>,
       <<"w">>,
       <<"K", "q">>,
       <<"-">>,
       <<"0">>,
       <<"1">> >>

\* r3k2r/8/8/8/8/8/8/R3K2R b Kq - 0 1
FenHalfRightsBlack ==
    << <<"r", "3", "k", "2", "r", "/", "8", "/", "8", "/", "8", "/", "8",
         "/", "8", "/", "8", "/", "R", "3", "K", "2", "R">>,
       <<"b">>,
       <<"K", "q">>,
       <<"-">>,
       <<"0">>,
       <<"1">> >>

\* 4k3/8/8/8/8/8/8/4K3 w KQkq - 0 1
FenRightsNoRooksWhite ==
    << <<"4", "k", "3", "/", "8", "/", "8", "/", "8", "/", "8", "/", "8",
         "/", "8", "/", "4", "K", "3">>,
       <<"w">>,
       <<"K", "Q", "k", "q">>,
       <<"-">>,
       <<"0">>,
       <<"1">> >>

\* 4k3/8/8/8/8/8/8/4K3 b KQkq - 0 1
FenRightsNoRooksBlack ==
    << <<"4", "k", "3", "/", "8", "/", "8", "/", "8", "/", "8", "/", "8",
         "/", "8", "/", "4", "K", "3">>,
       <<"b">>,
       <<"K", "Q", "k", "q">>,
       <<"-">>,
       <<"0">>,
       <<"1">> >>

\* R3k2R/8/8/8/8/8/8/r3K2r w KQkq - 0 1
FenEnemyRooksWhite ==
    << <<"R", "3", "k", "2", "R", "/", "8", "/", "8", "/", "8", "/", "8",
         "/", "8", "/", "8", "/", "r", "3", "K", "2", "r">>,
       <<"w">>,
       <<"K", "Q", "k", "q">>,
       <<"-">>,
       <<"0">>,
       <<"1">> >>

\* R3k2R/8/8/8/8/8/8/r3K2r b KQkq - 0 1
FenEnemyRooksBlack ==
    << <<"R", "3", "k", "2", "R", "/", "8", "/", "8", "/", "8", "/", "8",
         "/", "8", "/", "8", "/", "r", "3", "K", "2", "r">>,
       <<"b">>,
       <<"K", "Q", "k", "q">>,
       <<"-">>,
       <<"0">>,
       <<"1">> >>

\* n3k2b/8/8/8/8/8/8/N3K2B w KQkq - 0 1
FenMinorsOnCornersWhite ==
    << <<"n", "3", "k", "2", "b", "/", "8", "/", "8", "/", "8", "/", "8",
         "/", "8", "/", "8", "/", "N", "3", "K", "2", "B">>,
       <<"w">>,
       <<"K", "Q", "k", "q">>,
       <<"-">>,
       <<"0">>,
       <<"1">> >>

\* n3k2b/8/8/8/8/8/8/N3K2B b KQkq - 0 1
FenMinorsOnCornersBlack ==
    << <<"n", "3", "k", "2", "b", "/", "8", "/", "8", "/", "8", "/", "8",
         "/", "8", "/", "8", "/", "N", "3", "K", "2", "B">>,
       <<"b">>,
       <<"K", "Q", "k", "q">>,
       <<"-">>,
       <<"0">>,
       <<"1">> >>

\* r3k1nr/8/8/8/8/8/8/RN2K2R w KQkq - 0 1
FenBlockedWhite ==
    << <<"r", "3", "k", "1", "n", "r", "/", "8", "/", "8", "/", "8", "/",
         "8", "/", "8", "/", "8", "/", "R", "N", "2", "K", "2", "R">>,
       <<"w">>,
       <<"K", "Q", "k", "q">>,
       <<"-">>,
       <<"0">>,
       <<"1">> >>

\* r3k1nr/8/8/8/8/8/8/RN2K2R b KQkq - 0 1
FenBlockedBlack ==
    << <<"r", "3", "k", "1", "n", "r", "/", "8", "/", "8", "/", "8", "/",
         "8", "/", "8", "/", "8", "/", "R", "N", "2", "K", "2", "R">>,
       <<"b">>,
       <<"K", "Q", "k", "q">>,
       <<"-">>,
       <<"0">>,
       <<"1">> >>

\* r2k3r/8/8/8/8/8/8/R2K3R w KQkq - 0 1
FenKingOnD1 ==
    << <<"r", "2", "k", "3", "r", "/", "8", "/", "8", "/", "8", "/", "8",
         "/", "8", "/", "8", "/", "R", "2", "K", "3", "R">>,
       <<"w">>,
       <<"K", "Q", "k", "q">>,
       <<"-">>,
       <<"0">>,
       <<"1">> >>

\* r2k3r/8/8/8/8/8/8/R2K3R b KQkq - 0 1
FenKingOnD8 ==
    << <<"r", "2", "k", "3", "r", "/", "8", "/", "8", "/", "8", "/", "8",
         "/", "8", "/", "8", "/", "R", "2", "K", "3", "R">>,
       <<"b">>,
       <<"K", "Q", "k", "q">>,
       <<"-">>,
       <<"0">>,
       <<"1">> >>

\* r4k1r/8/8/8/8/8/8/R4K1R w KQkq - 0 1
FenKingOnF1 ==
    << <<"r", "4", "k", "1", "r", "/", "8", "/", "8", "/", "8", "/", "8",
         "/", "8", "/", "8", "/", "R", "4", "K", "1", "R">>,
       <<"w">>,
       <<"K", "Q", "k", "q">>,
       <<"-">>,
       <<"0">>,
       <<"1">> >>

\* r4k1r/8/8/8/8/8/8/R4K1R b KQkq - 0 1
FenKingOnF8 ==
    << <<"r", "4", "k", "1", "r", "/", "8", "/", "8", "/", "8", "/", "8",
         "/", "8", "/", "8", "/", "R", "4", "K", "1", "R">>,
       <<"b">>,
       <<"K", "Q", "k", "q">>,
       <<"-">>,
       <<"0">>,
       <<"1">> >>

\* r6r/8/4k3/8/4K3/8/8/R6R w KQkq - 0 1
FenKingOnE4 ==
    << <<"r", "6", "r", "/", "8", "/", "4", "k", "3", "/", "8", "/", "4",
         "K", "3", "/", "8", "/", "8", "/", "R", "6", "R">>,
       <<"w">>,
       <<"K", "Q", "k", "q">>,
       <<"-">>,
       <<"0">>,
       <<"1">> >>

CastleFens ==
    {FenHalfRightsWhite, FenHalfRightsBlack, FenRightsNoRooksWhite,
     FenRightsNoRooksBlack, FenEnemyRooksWhite, FenEnemyRooksBlack,
     FenMinorsOnCornersWhite, FenMinorsOnCornersBlack, FenBlockedWhite,
     FenBlockedBlack, FenKingOnD1, FenKingOnD8,
     FenKingOnF1, FenKingOnF8, FenKingOnE4}

CastleBoards == {from_fen(f).board : f \in {g \in CastleFens : from_fen(g).ok}}

\* Positions whose en-passant field disagrees with the pieces: from_fen
\* stores the square the fourth field names
\* k7/3P4/8/8/8/8/8/K7 w - e8 0 1
FenEnPassantLastRank ==
    << <<"k", "7", "/", "3", "P", "4", "/", "8", "/", "8", "/", "8", "/",
         "8", "/", "8", "/", "K", "7">>,
       <<"w">>,
       <<"-">>,
       <<"e", "8">>,
       <<"0">>,
       <<"1">> >>

\* k7/8/4N3/3P4/8/8/8/K7 w - e6 0 1
FenEnPassantOnOwnPiece ==
    << <<"k", "7", "/", "8", "/", "4", "N", "3", "/", "3", "P", "4", "/",
         "8", "/", "8", "/", "8", "/", "K", "7">>,
       <<"w">>,
       <<"-">>,
       <<"e", "6">>,
       <<"0">>,
       <<"1">> >>

\* k7/8/8/8/3p4/4N3/8/K7 b - e3 0 1
FenEnPassantOnEnemyPiece ==
    << <<"k", "7", "/", "8", "/", "8", "/", "8", "/", "3", "p", "4", "/",
         "4", "N", "3", "/", "8", "/", "K", "7">>,
       <<"b">>,
       <<"-">>,
       <<"e", "3">>,
       <<"0">>,
       <<"1">> >>

StrayFens == {FenEnPassantLastRank, FenEnPassantOnOwnPiece, FenEnPassantOnEnemyPiece}

StrayBoards == {from_fen(f).board : f \in {g \in StrayFens : from_fen(g).ok}}

\* k7/8/1Q6/8/8/8/8/K7 b - - 0 1   (Black is stalemated)
FenStaleMate ==
    << <<"k", "7", "/", "8", "/", "1", "Q", "6", "/", "8", "/", "8", "/",
         "8", "/", "8", "/", "K", "7">>,
       <<"b">>,
       <<"-">>,
       <<"-">>,
       <<"0">>,
       <<"1">> >>

\* Boards a MoveGen is made for: those of the tests, those of the opening
\* lines, a stalemate and those with unusual rights or en-passant squares
MoveGenBoards ==
    FenBoards \cup StartBoards \cup CastleBoards \cup StrayBoards
    \cup {from_fen(FenStaleMate).board}

MoveGenInit ==
    /\ board \in MoveGenBoards
    /\ prev = board
    /\ last = NoMove
    /\ ply = 0
    /\ magic = MagicIdle
    /\ fen = NoCall
    /\ perft = NoCall
    /\ loader = NoCall
    /\ movegen = MoveGen_new

\* mg.gen_pseudo_moves(): every generator pushes on pseudo_move_list
GenPseudoMoves ==
    /\ movegen.pc # "idle"
    /\ Len(movegen.calls) < MaxCalls
    /\ movegen' = [movegen EXCEPT
                      !.pc = "called",
                      !.pseudo_move_list = @ \o gen_pseudo_moves(board),
                      !.calls = Append(@, "gen_pseudo_moves")]
    /\ UNCHANGED <<board, prev, last, ply, magic, fen, perft, loader>>

\* mg.gen_legal_moves(): gen_pseudo_moves, then pseudo_move_list is taken
\* (left empty) and every move of it that passes the filter is pushed on
\* legal_move_list
GenLegalMoves ==
    /\ movegen.pc # "idle"
    /\ Len(movegen.calls) < MaxCalls
    /\ LET old_items == movegen.pseudo_move_list \o gen_pseudo_moves(board)
       IN  movegen' = [movegen EXCEPT
                          !.pc = "called",
                          !.pseudo_move_list = <<>>,
                          !.legal_move_list =
                              @ \o SelectSeq(old_items, LAMBDA m : KeepsMove(board, m)),
                          !.calls = Append(@, "gen_legal_moves")]
    /\ UNCHANGED <<board, prev, last, ply, magic, fen, perft, loader>>

MoveGenNext == GenPseudoMoves \/ GenLegalMoves

MoveGenSpec == MoveGenInit /\ [][MoveGenNext]_vars

\* A board with one piece of the side to move on `square` and an enemy
\* knight on every other square
LoneBoard(kind, color, square) ==
    [to_move |-> color,
     bb |-> [c \in Colors |-> [k \in Kinds |->
                IF c = color /\ k = kind THEN {square}
                ELSE IF c # color /\ k = "Knight" THEN Squares \ {square}
                ELSE {}]],
     casteling_rights |-> Casteling(FALSE, FALSE, FALSE, FALSE),
     en_passant |-> {}]

\* A knight or a king on any square, a pawn on any square of ranks 2 to 7
LoneBoards ==
    {LoneBoard(kind, color, square) :
        kind \in {"Knight", "King"}, color \in Colors, square \in Squares}
    \cup {LoneBoard("Pawn", color, square) :
        color \in Colors, square \in {s \in Squares : RankOf(s) \in 1 .. 6}}

ShiftInit ==
    /\ board \in LoneBoards
    /\ prev = board
    /\ last = NoMove
    /\ ply = 0
    /\ magic = MagicIdle
    /\ fen = NoCall
    /\ perft = NoCall
    /\ loader = NoCall
    /\ movegen = MoveGen_new

\* No king stands on these boards, so only gen_pseudo_moves is called on them
ShiftSpec == ShiftInit /\ [][GenPseudoMoves]_vars

----------------------------------------------------------------------------
(* Reference notions the claims are stated with: the rules of chess written  *)
(* from the target square, without bitboard shifts or tables                 *)

Abs(x) == IF x < 0 THEN -x ELSE x

\* The squares strictly between two squares on a common rank, file or
\* diagonal (empty when they are not aligned)
Between(s, t) ==
    LET dr == RankOf(t) - RankOf(s)
        df == FileOf(t) - FileOf(s)
        n == IF Abs(dr) > Abs(df) THEN Abs(dr) ELSE Abs(df)
    IN  IF s # t /\ (dr = 0 \/ df = 0 \/ Abs(dr) = Abs(df))
        THEN {8 * (RankOf(s) + k * (dr \div n)) + FileOf(s) + k * (df \div n) :
                k \in 1 .. n - 1}
        ELSE {}

\* Square s is attacked by a piece of colour `by` on board b
RefAttacked(b, s, by) ==
    \/ \E p \in b.bb[by]["Pawn"] :
          /\ Abs(FileOf(p) - FileOf(s)) = 1
          /\ RankOf(s) = RankOf(p) + (IF by = "White" THEN 1 ELSE -1)
    \/ \E p \in b.bb[by]["Knight"] :
          {Abs(FileOf(p) - FileOf(s)), Abs(RankOf(p) - RankOf(s))} = {1, 2}
    \/ \E p \in b.bb[by]["King"] :
          /\ p # s
          /\ Abs(FileOf(p) - FileOf(s)) <= 1
          /\ Abs(RankOf(p) - RankOf(s)) <= 1
    \/ \E p \in b.bb[by]["Rook"] \cup b.bb[by]["Queen"] :
          /\ p # s
          /\ (FileOf(p) = FileOf(s) \/ RankOf(p) = RankOf(s))
          /\ Between(p, s) \cap all_pieces(b) = {}
    \/ \E p \in b.bb[by]["Bishop"] \cup b.bb[by]["Queen"] :
          /\ p # s
          /\ Abs(FileOf(p) - FileOf(s)) = Abs(RankOf(p) - RankOf(s))
          /\ Between(p, s) \cap all_pieces(b) = {}

RightNames ==
    {"white_kingside", "white_queenside", "black_kingside", "black_queenside"}

\* The colour a castling right belongs to and the home corner of its rook
RightOwner(r) ==
    IF r \in {"white_kingside", "white_queenside"} THEN "White" ELSE "Black"
RightCorner(r) ==
    CASE r = "white_kingside" -> 7 [] r = "white_queenside" -> 0
      [] r = "black_kingside" -> 63 [] r = "black_queenside" -> 56

\* The mover's own update clears right r: a king move of the owner, or a move
\* of the owner's rook from the corner of r
MoverClears(m, r) ==
    /\ m.piece_color = RightOwner(r)
    /\ \/ m.piece_kind = "King"
       \/ m.piece_kind = "Rook" /\ m.from = RightCorner(r)

\* The move captures the owner's rook on the corner of r
CaptureClears(m, r) ==
    /\ m.captured_piece = "Rook"
    /\ m.piece_color # RightOwner(r)
    /\ m.to = RightCorner(r)

Played == last # NoMove

----------------------------------------------------------------------------
(* Claims *)

\* C1: after do_move of a move of gen_legal_moves, the king of the mover
\* (the side to move before the move) is not attacked by the opposite colour.
C1_MoverKingSafe ==
    Played =>
        \A k \in board.bb[prev.to_move]["King"] :
            ~RefAttacked(board, k, Opposite(prev.to_move))

\* C1 witness: the mover was in check before the move and has answered it
C1_Witness ==
    /\ Played
    /\ \E k \in prev.bb[prev.to_move]["King"] :
          RefAttacked(prev, k, Opposite(prev.to_move))
    /\ C1_MoverKingSafe

\* C2: the twelve piece bitboards are pairwise disjoint in every board
\* reached from Board::default() by legal moves.
C2_Disjoint ==
    \A p, q \in Colors \X Kinds :
        p # q => board.bb[p[1]][p[2]] \cap board.bb[q[1]][q[2]] = {}

\* C2 witness: a promotion that captures has been applied
C2_Witness ==
    /\ Played
    /\ last.promoting_piece # "None"
    /\ last.captured_piece # "None"
    /\ C2_Disjoint

\* C3: each king bitboard has exactly one bit set in every board reached
\* from Board::default() by legal moves.
C3_OneKing ==
    /\ Cardinality(board.bb["White"]["King"]) = 1
    /\ Cardinality(board.bb["Black"]["King"]) = 1

\* C3 witness: the side to move is in check after the move just played, and
\* both kings are on the board
C3_Witness ==
    /\ Played
    /\ \E k \in board.bb[board.to_move]["King"] :
          RefAttacked(board, k, Opposite(board.to_move))
    /\ C3_OneKing

\* The king's origin, traversed and destination squares of a castling move
\* to `to`: E1 F1 G1, E1 D1 C1, E8 F8 G8, E8 D8 C8
KingPath(to) ==
    CASE to = 6 -> {4, 5, 6}
      [] to = 2 -> {4, 3, 2}
      [] to = 62 -> {60, 61, 62}
      [] to = 58 -> {60, 59, 58}

\* C5: of the castling moves the generator emits on the board, gen_legal_moves
\* keeps exactly those whose king path (origin, traversed square, destination)
\* holds no square attacked by the opponent; B1/B8 are not part of the path.
C5_CastlingPath ==
    \A m \in SeqRange(gen_pseudo_moves(board)) :
        m.casteling =>
            ((m \in SeqRange(gen_legal_moves(board))) <=>
             (\A s \in KingPath(m.to) :
                 ~RefAttacked(board, s, Opposite(board.to_move))))

\* C5 witness: queenside castling is legal for White while Black attacks B1
C5_Witness ==
    /\ RefAttacked(board, 1, "Black")
    /\ \E m \in SeqRange(gen_legal_moves(board)) : m.casteling /\ m.to = 2
    /\ C5_CastlingPath

\* C6: do_move never sets a castling right: a right that is false before a
\* move is false after it.
C6_RightsNeverSet ==
    [][\A r \in RightNames :
          ~board.casteling_rights[r] => ~board'.casteling_rights[r]]_vars

\* C6 witness: a rook has moved from a square that is not its corner while
\* its side had lost a right, and the right is still cleared
C6_Witness ==
    /\ Played
    /\ last.piece_kind = "Rook"
    /\ \E r \in RightNames :
          /\ RightOwner(r) = last.piece_color
          /\ last.from # RightCorner(r)
          /\ ~prev.casteling_rights[r]
          /\ ~board.casteling_rights[r]

\* C7: a king move (castling included) clears both rights of its colour; a
\* rook move from the corner of a right of its colour clears that right; a
\* move of another piece, or of a rook from another square, that captures
\* nothing leaves the four rights unchanged.
C7_MoverRights ==
    Played =>
        /\ last.piece_kind = "King" =>
              \A r \in RightNames :
                  RightOwner(r) = last.piece_color => ~board.casteling_rights[r]
        /\ last.piece_kind = "Rook" =>
              \A r \in RightNames :
                  (RightOwner(r) = last.piece_color /\ last.from = RightCorner(r))
                      => ~board.casteling_rights[r]
        /\ ( /\ last.piece_kind # "King"
             /\ ~ \E r \in RightNames : MoverClears(last, r)
             /\ last.captured_piece = "None" )
              => board.casteling_rights = prev.casteling_rights

\* C7 witness: a castling move was applied while both rights of the colour
\* were set
C7_Witness ==
    /\ Played
    /\ last.casteling
    /\ \A r \in RightNames :
          RightOwner(r) = last.piece_color => prev.casteling_rights[r]
    /\ C7_MoverRights

\* C8: a move that captures a rook on a corner clears the right of the rook's
\* colour for that corner, and every right is afterwards what it was unless
\* that capture or the mover's own update clears it.
C8_CapturedRookRights ==
    (Played /\ last.captured_piece = "Rook" /\ last.to \in {0, 7, 56, 63}) =>
        \A r \in RightNames :
            board.casteling_rights[r] =
                (prev.casteling_rights[r] /\ ~MoverClears(last, r)
                 /\ ~CaptureClears(last, r))

\* C8 witness: a promoting pawn has captured a rook on its corner while the
\* right of that corner was set
C8_Witness ==
    /\ Played
    /\ last.promoting_piece # "None"
    /\ \E r \in RightNames :
          CaptureClears(last, r) /\ prev.casteling_rights[r]
    /\ C8_CapturedRookRights

\* C9: en_passant, when it is Some, is a square of rank 3 or rank 6, in every
\* board built by Board::default() or Board::from_fen and changed by do_move.
C9_EnPassantRank ==
    \A s \in board.en_passant : s \in 16 .. 23 \/ s \in 40 .. 47

\* C10: after do_move(m), en_passant is Some(the square midway between m.from
\* and m.to) if m.double_push and None otherwise.
C10_EnPassantTarget ==
    Played =>
        IF last.double_push
        THEN board.en_passant =
                {s \in Squares :
                    /\ FileOf(s) = FileOf(last.from)
                    /\ FileOf(s) = FileOf(last.to)
                    /\ 2 * RankOf(s) = RankOf(last.from) + RankOf(last.to)}
        ELSE board.en_passant = {}

\* C10 witness: a move that is not a double push has cleared the target the
\* previous move left
C10_Witness ==
    /\ Played
    /\ prev.en_passant # {}
    /\ ~last.double_push
    /\ board.en_passant = {}

\* C4: every entry MagicEntry::generate returns answers every blocker subset
\* of its mask with the reference attack, find_attack(blockers) =
\* compute_attack(square, blockers, kind); as find_attack depends on the
\* blockers through the hash index only, two subsets with different reference
\* attacks never share an index of a returned entry.
C4_MagicAgrees ==
    /\ magic.pc = "ready" =>
          \A blockers \in SUBSET mask_of(magic.square, magic.kind) :
              find_attack(magic.entry, blockers)
                  = compute_attack(magic.square, blockers, magic.kind)
    /\ magic.pc = "found" =>
          magic.attack = compute_attack(magic.square, magic.blockers, magic.kind)

\* A lookup with blockers in an entry where subsets share an index: fewer
\* indices than subsets of the mask
C4_Witness ==
    /\ magic.pc = "found"
    /\ magic.blockers # {}
    /\ magic.attack # magic.entry.default_attack
    /\ Cardinality(DOMAIN magic.entry.attack_set)
          < 2 ^ count_ones(mask_of(magic.square, magic.kind))

\* The square of the pawn an en-passant capture to `to` by `color` removes
Behind(color, to) == IF color = "White" THEN to - 8 ELSE to + 8

\* C11: do_move of an en-passant move of the generator removes the enemy pawn
\* one rank behind m.to (to - 8 for White, to + 8 for Black), found from the
\* en-passant target the board held before the move, while m.to held no
\* piece; the capturing pawn goes from m.from to m.to and no other enemy bit
\* changes.
C11_EnPassantCapture ==
    (Played /\ last.en_passant) =>
        LET mover == last.piece_color
            enemy == Opposite(mover)
            behind == Behind(mover, last.to)
        IN  /\ prev.en_passant = {last.to}
            /\ get_piece(prev, last.to).kind = "None"
            /\ behind \in prev.bb[enemy]["Pawn"]
            /\ board.bb[enemy] = [prev.bb[enemy] EXCEPT !["Pawn"] = @ \ {behind}]
            /\ board.bb[mover] =
                  [prev.bb[mover] EXCEPT !["Pawn"] = (@ \ {last.from}) \cup {last.to}]
            /\ board.en_passant = {}

\* C11 witness: Black has captured en passant
C11_Witness ==
    /\ Played
    /\ last.en_passant
    /\ last.piece_color = "Black"
    /\ last.to + 8 \notin all_pieces(board)

\* The bitboards, of the twelve, that hold square s
Holders(b, s) == {ck \in Colors \X Kinds : s \in b.bb[ck[1]][ck[2]]}

\* C12: after do_move of a promotion to k, m.from is cleared in the mover's
\* pawn bitboard, m.to is not set in it, m.to is set in the mover's bitboard
\* of kind k, and m.to is set in exactly one of the twelve bitboards, also
\* when the promotion captures.
C12_Promotion ==
    (Played /\ last.promoting_piece # "None") =>
        /\ last.from \notin board.bb[last.piece_color]["Pawn"]
        /\ last.to \notin board.bb[last.piece_color]["Pawn"]
        /\ Holders(board, last.to) = {<<last.piece_color, last.promoting_piece>>}

\* C12 witness: a promotion that captured a piece
C12_Witness ==
    /\ Played
    /\ last.promoting_piece = "Knight"
    /\ last.captured_piece # "None"
    /\ last.to \in board.bb[last.piece_color]["Knight"]

\* The corner the castling rook leaves and the square it lands on
CastleCorner(to) ==
    CASE to = G1 -> H1 [] to = C1 -> A1 [] to = G8 -> H8 [] to = C8 -> A8
CastleLanding(to) ==
    CASE to = G1 -> F1 [] to = C1 -> D1 [] to = G8 -> F8 [] to = C8 -> D8

\* C13: do_move of a castling move takes the king from E1/E8 to m.to and the
\* rook of the colour from its corner to the square next to the king (H1-F1,
\* A1-D1, H8-F8, A8-D8); the corner is then empty and no other bitboard has
\* changed.
C13_Castling ==
    (Played /\ last.casteling) =>
        LET mover == last.piece_color
            corner == CastleCorner(last.to)
        IN  /\ last.from = (IF mover = "White" THEN E1 ELSE E8)
            /\ prev.bb[mover]["King"] = {last.from}
            /\ corner \in prev.bb[mover]["Rook"]
            /\ board.bb[mover] =
                  [prev.bb[mover] EXCEPT
                      !["King"] = {last.to},
                      !["Rook"] = (@ \ {corner}) \cup {CastleLanding(last.to)}]
            /\ board.bb[Opposite(mover)] = prev.bb[Opposite(mover)]
            /\ corner \notin all_pieces(board)

\* C13 witness: Black has castled queenside
C13_Witness ==
    /\ Played
    /\ last.casteling
    /\ last.to = C8
    /\ D8 \in board.bb["Black"]["Rook"]

\* The Move invariants for one move
MoveInvariant(m) ==
    /\ Cardinality({f \in {"double_push", "en_passant", "casteling"} : m[f]}) <= 1
    /\ m.en_passant => m.captured_piece = "Pawn"
    /\ m.casteling =>
          /\ m.piece_kind = "King"
          /\ <<m.from, m.to>> \in {<<E1, G1>>, <<E1, C1>>, <<E8, G8>>, <<E8, C8>>}
    /\ m.promoting_piece # "None" =>
          /\ m.piece_kind = "Pawn"
          /\ RankOf(m.to) = (IF m.piece_color = "White" THEN 7 ELSE 0)
          /\ m.promoting_piece \in {"Queen", "Rook", "Bishop", "Knight"}

\* C14: every move gen_pseudo_moves emits for the board satisfies the Move
\* invariants: at most one of double_push, en_passant, casteling; en_passant
\* only with captured_piece Pawn; casteling only for a king on (E1,G1),
\* (E1,C1), (E8,G8) or (E8,C8); a promotion only for a pawn reaching its last
\* rank, to Queen, Rook, Bishop or Knight.
C14_MoveInvariants ==
    \A m \in SeqRange(gen_pseudo_moves(board)) : MoveInvariant(m)

\* C14 witness: the pseudo-moves of the board hold a castling move, a
\* promotion and a double push
C14_Witness ==
    LET moves == SeqRange(gen_pseudo_moves(board))
    IN  /\ \E m \in moves : m.casteling
        /\ \E m \in moves : m.promoting_piece # "None"
        /\ \E m \in moves : m.double_push

\* The squares a rank field covers: a digit its value, any other character 1
RECURSIVE RankSquares(_)
RankSquares(chars) ==
    IF chars = <<>> THEN 0
    ELSE (IF Head(chars) \in Digits THEN to_digit(Head(chars)) ELSE 1)
         + RankSquares(Tail(chars))

\* The six faults of a FEN text
FewFields(parts) == Len(parts) < 4
WrongRankCount(parts) == Len(Split(parts[1], "/")) # 8
WrongRankSum(parts) ==
    LET ranks == Split(parts[1], "/")
    IN  \E i \in 1 .. Len(ranks) : RankSquares(ranks[i]) # 8
BadPieceChar(parts) ==
    \E i \in 1 .. Len(parts[1]) :
        parts[1][i] \notin (Digits \cup PieceChars \cup {"/"})
BadColour(parts) == parts[2] \notin {<<"w">>, <<"b">>}
BadEnPassant(parts) == parts[4] # <<"-">> /\ ~Square_from_str(parts[4]).ok

Faulty(parts) ==
    \/ FewFields(parts)
    \/ WrongRankCount(parts)
    \/ WrongRankSum(parts)
    \/ BadPieceChar(parts)
    \/ BadColour(parts)
    \/ BadEnPassant(parts)

\* C15: from_fen returns an InvalidFEN error, and no board, for a text with
\* fewer than four fields, a placement without exactly eight ranks, a rank
\* that does not cover 8 squares, a character that is no piece, a colour
\* other than w or b, or an en-passant field that is neither - nor a square;
\* any other text yields Ok.
C15_FenErrors ==
    fen.pc = "returned" =>
        IF Faulty(split_whitespace(fen.text))
        THEN fen.result = Err("InvalidFEN")
        ELSE fen.result.ok

\* C16: from_fen of the starting-position FEN yields a board equal to
\* Board::default(): side to move, the twelve bitboards, the four castling
\* rights and no en-passant target.
C16_StartFenIsDefault ==
    (fen.pc = "returned" /\ fen.text = StartFen) => fen.result = Ok(DefaultBoard)

\* C16 witness: from_fen has returned Ok for the starting-position FEN
C16_Witness ==
    /\ fen.pc = "returned"
    /\ fen.text = StartFen
    /\ fen.result.ok
    /\ Cardinality(all_pieces(fen.result.board)) = 32

\* C17: two runs of gen_legal_moves on the same board give the same list,
\* in content and in order, although the two runs look the sliding attacks
\* up in table entries generated from different magic numbers.
C17_TablesDoNotMatter ==
    magic.pc = "done" => magic.other_moves = magic.moves

\* C17 witness: both runs are done, their entries have different magic
\* numbers and different attack_set tables, and the list has a move of the
\* piece on the entry's square
C17_Witness ==
    /\ magic.pc = "done"
    /\ magic.entry.magic # magic.other.magic
    /\ magic.entry.attack_set # magic.other.attack_set
    /\ \E m \in SeqRange(magic.moves) : m.from = magic.square

\* The leaf counts of the legal-move tree of chess from the starting
\* position, depths 1 to 6
CanonicalPerft == <<20, 400, 8902, 197281, 4865609, 119060324>>

ValidFile(file) == file.kind = "decodable" /\ file.entries = 64

\* C19: loading a magic table generates it when the file is absent,
\* deserializes it when the file is present and valid, and regenerates it,
\* without a fatal error, when the file is corrupt or does not decode to 64
\* entries.
C19_LoadPolicy ==
    loader.pc # "called" =>
        IF ValidFile(loader.found) THEN loader.pc = "loaded"
        ELSE /\ loader.pc = "generated"
             /\ ValidFile(loader.file)

\* The ray from s in direction (dr, df) without its outermost square: the
\* squares of the ray from which one more step stays on the board
InnerRay(s, dr, df) ==
    {t \in Squares : \E k \in 1 .. 7 :
        /\ RankOf(t) = RankOf(s) + k * dr
        /\ FileOf(t) = FileOf(s) + k * df
        /\ RankOf(t) + dr \in 0 .. 7
        /\ FileOf(t) + df \in 0 .. 7}

\* The union of the four rays of the kind, each without its outermost square
RelevantBlockers(s, kind) ==
    IF kind = "Rook"
    THEN InnerRay(s, -1, 0) \cup InnerRay(s, 1, 0)
         \cup InnerRay(s, 0, -1) \cup InnerRay(s, 0, 1)
    ELSE InnerRay(s, -1, -1) \cup InnerRay(s, -1, 1)
         \cup InnerRay(s, 1, -1) \cup InnerRay(s, 1, 1)

\* C20: the mask MagicEntry::generate uses for a rook (bishop) on a square
\* is the union of its four straight (diagonal) rays without the outermost
\* square of each, so it has at most 12 bits for a rook and 9 for a bishop.
C20_MaskLeavesOutEdge ==
    magic.pc # "idle" =>
        LET mask == mask_of(magic.square, magic.kind)
        IN  /\ mask = RelevantBlockers(magic.square, magic.kind)
            /\ count_ones(mask) <= (IF magic.kind = "Rook" THEN 12 ELSE 9)

\* The number with the set bits `bits`, all below 16
ValueOfBits(bits) ==
    LET bit(i) == IF i \in bits THEN 2 ^ i ELSE 0
    IN  bit(0) + bit(1) + bit(2) + bit(3) + bit(4) + bit(5) + bit(6) + bit(7)
        + bit(8) + bit(9) + bit(10) + bit(11) + bit(12) + bit(13) + bit(14) + bit(15)

\* C21: for every square and kind the shift is 64 - popcount(mask), and for
\* every blockers value the hash index has no bit at or above popcount(mask)
\* nor at or above 16, so neither the u16 conversion of the index nor the u8
\* conversion of the shift fails.
C21_IndexFits ==
    magic.pc \in {"hashed", "panicked"} =>
        LET bits == Cardinality(mask_of(magic.square, magic.kind))
        IN  /\ magic.pc = "hashed"
            /\ magic.shift + bits = 64
            /\ magic.shift < 256
            /\ magic.index \subseteq 0 .. (bits - 1)
            /\ magic.index \subseteq 0 .. 15
            /\ ValueOfBits(magic.index)
                 = magic_index(magic.blockers, magic.magic, magic.shift)

\* C21 witness: a hash of a full board of blockers whose index has its
\* highest possible bit set
C21_Witness ==
    /\ magic.pc = "hashed"
    /\ magic.blockers = Squares
    /\ Cardinality(mask_of(magic.square, magic.kind)) - 1 \in magic.index

\* The squares at the given distances in file and rank from s
KnightJumps(s) ==
    {t \in Squares : {Abs(FileOf(t) - FileOf(s)), Abs(RankOf(t) - RankOf(s))} = {1, 2}}
KingSteps(s) ==
    {t \in Squares \ {s} :
        Abs(FileOf(t) - FileOf(s)) <= 1 /\ Abs(RankOf(t) - RankOf(s)) <= 1}
PawnCaptures(color, s) ==
    {t \in Squares :
        /\ Abs(FileOf(t) - FileOf(s)) = 1
        /\ RankOf(t) - RankOf(s) = (IF color = "White" THEN 1 ELSE -1)}

\* The one piece of the side to move on a board of LoneBoards
LoneKind(b) == CHOOSE k \in Kinds : b.bb[b.to_move][k] # {}
LoneSquare(b) == CHOOSE s \in Squares : s \in b.bb[b.to_move][LoneKind(b)]
LoneTargets(b) ==
    IF LoneKind(b) = "Knight" THEN KnightJumps(LoneSquare(b))
    ELSE IF LoneKind(b) = "King" THEN KingSteps(LoneSquare(b))
    ELSE PawnCaptures(b.to_move, LoneSquare(b))

\* C22: no shift wraps around a board edge and none misses a square: the
\* targets of a knight are the squares (1,2) or (2,1) away, those of a king
\* the squares at most 1 away in file and rank, those of a pawn capture and
\* of a pawn attack the squares 1 file aside and 1 rank forward; a knight on
\* h8 has 2 targets and a king on a1 has 3.
C22_NoWrap ==
    (movegen.pc = "called" /\ movegen.calls = <<"gen_pseudo_moves">>) =>
        /\ {m.to : m \in SeqRange(movegen.pseudo_move_list)} = LoneTargets(board)
        /\ \A m \in SeqRange(movegen.pseudo_move_list) : m.from = LoneSquare(board)
        /\ {t \in Squares : is_square_under_attack(board, t, board.to_move)}
             = LoneTargets(board)
        /\ gen_knight_moves(square_mask(LoneSquare(board)))
             = KnightJumps(LoneSquare(board))
        /\ (LoneKind(board) = "Knight" /\ LoneSquare(board) = H8
              => Len(movegen.pseudo_move_list) = 2)
        /\ (LoneKind(board) = "King" /\ LoneSquare(board) = A1
              => Len(movegen.pseudo_move_list) = 3)

\* C22 witness: the pseudo-moves of a knight on h8 have been generated
C22_Witness ==
    /\ movegen.pc = "called"
    /\ movegen.calls = <<"gen_pseudo_moves">>
    /\ board.bb["White"]["Knight"] = {H8}
    /\ Len(movegen.pseudo_move_list) = 2

\* The two wings of a colour: the right, the squares between king and rook,
\* the rook's corner and the king's landing square
Wings == {"kingside", "queenside"}
HomeRank(c) == IF c = "White" THEN 0 ELSE 7
WingRight(b, c, w) ==
    CASE c = "White" /\ w = "kingside" -> b.casteling_rights.white_kingside
      [] c = "White" /\ w = "queenside" -> b.casteling_rights.white_queenside
      [] c = "Black" /\ w = "kingside" -> b.casteling_rights.black_kingside
      [] c = "Black" /\ w = "queenside" -> b.casteling_rights.black_queenside
WingBetween(c, w) ==
    {8 * HomeRank(c) + f : f \in (IF w = "kingside" THEN {5, 6} ELSE {1, 2, 3})}
WingCorner(c, w) == 8 * HomeRank(c) + (IF w = "kingside" THEN 7 ELSE 0)
WingLanding(c, w) == 8 * HomeRank(c) + (IF w = "kingside" THEN 6 ELSE 2)

\* The positions of the castling moves to square `to` in a list
CastlesTo(list, to) ==
    {i \in 1 .. Len(list) : list[i].casteling /\ list[i].to = to}

\* The condition under which the castling of colour c on wing w is emitted
WingOpen(b, c, w) ==
    /\ WingRight(b, c, w)
    /\ WingBetween(c, w) \cap all_pieces(b) = {}
    /\ WingCorner(c, w) \in b.bb[c]["Rook"]

\* One gen_pseudo_moves call has been made on a fresh MoveGen
OnePseudoCall == movegen.pc = "called" /\ movegen.calls = <<"gen_pseudo_moves">>

\* C23: gen_pseudo_moves emits the castling move of a wing of the side to move
\* exactly when the right is set, the squares between king and rook are empty
\* (F, G kingside; B, C, D queenside) and a rook of the mover's colour stands
\* on the corner; whether a square is attacked plays no part, and no other
\* castling move is emitted.
C23_CastlingEmitted ==
    OnePseudoCall =>
        LET c == board.to_move
            list == movegen.pseudo_move_list
        IN  /\ \A w \in Wings :
                  Cardinality(CastlesTo(list, WingLanding(c, w))) =
                      (IF WingOpen(board, c, w) THEN 1 ELSE 0)
            /\ \A i \in 1 .. Len(list) :
                  list[i].casteling =>
                      /\ list[i].piece_color = c
                      /\ list[i].to \in {WingLanding(c, w) : w \in Wings}

\* C23 witness: a castling move has been emitted although a square the king
\* crosses is attacked by the opponent
C23_Witness ==
    /\ OnePseudoCall
    /\ \E w \in Wings :
          /\ CastlesTo(movegen.pseudo_move_list, WingLanding(board.to_move, w)) # {}
          /\ \E s \in WingBetween(board.to_move, w) :
                RefAttacked(board, s, Opposite(board.to_move))

\* The rank a pawn of colour c promotes on, and its forward direction
LastRank(c) == IF c = "White" THEN 7 ELSE 0
Forward(c) == IF c = "White" THEN 1 ELSE -1

\* The squares a pawn of colour c on p can push to (one step, empty) or
\* capture on (one step diagonally forward, enemy piece)
PawnPushes(b, c, p) ==
    {t \in Squares : /\ FileOf(t) = FileOf(p)
                     /\ RankOf(t) = RankOf(p) + Forward(c)
                     /\ t \notin all_pieces(b)}
PawnTakes(b, c, p) ==
    {t \in Squares : /\ Abs(FileOf(t) - FileOf(p)) = 1
                     /\ RankOf(t) = RankOf(p) + Forward(c)
                     /\ t \in PiecesOf(b, Opposite(c))}

\* The positions of the pawn moves from p to t in a list
PawnMovesAt(list, p, t) ==
    {i \in 1 .. Len(list) :
        list[i].piece_kind = "Pawn" /\ list[i].from = p /\ list[i].to = t}

\* C24: every pawn push or capture to the last rank is emitted as exactly
\* four moves with that from and to, promoting to Queen, Rook, Bishop and
\* Knight, and as no move without promotion; every pawn move to another rank
\* has promoting_piece None.
C24_FourPromotions ==
    OnePseudoCall =>
        LET c == board.to_move
            list == movegen.pseudo_move_list
        IN  /\ \A p \in board.bb[c]["Pawn"] :
                  \A t \in PawnPushes(board, c, p) \cup PawnTakes(board, c, p) :
                      RankOf(t) = LastRank(c) =>
                          /\ Cardinality(PawnMovesAt(list, p, t)) = 4
                          /\ {list[i].promoting_piece : i \in PawnMovesAt(list, p, t)}
                                = {"Queen", "Rook", "Bishop", "Knight"}
            /\ \A i \in 1 .. Len(list) :
                  list[i].piece_kind = "Pawn" =>
                      ((list[i].promoting_piece # "None")
                          <=> (RankOf(list[i].to) = LastRank(c)))

\* One gen_legal_moves call has been made on a fresh MoveGen
OneLegalCall == movegen.pc = "called" /\ movegen.calls = <<"gen_legal_moves">>

\* The three reasons for which the filter drops pseudo-move m of board b
TakesKing(m) == m.captured_piece = "King"
CastlesThroughAttack(b, m) ==
    /\ m.casteling
    /\ \E s \in KingPath(m.to) : RefAttacked(b, s, Opposite(b.to_move))
ExposesKing(b, m) ==
    \E k \in do_move(b, m).bb[b.to_move]["King"] :
        RefAttacked(do_move(b, m), k, Opposite(b.to_move))

\* C25: the legal list of one gen_legal_moves call on a fresh MoveGen is the
\* pseudo-legal list in the same order without the moves that capture a king,
\* the castling moves across an attacked square and the moves that leave the
\* mover's king attacked; it is empty exactly when every pseudo-legal move is
\* one of these (checkmate or stalemate).
C25_LegalIsFilteredPseudo ==
    OneLegalCall =>
        LET pseudo == gen_pseudo_moves(board)
            kept == SelectSeq(pseudo, LAMBDA m :
                        /\ ~TakesKing(m)
                        /\ ~CastlesThroughAttack(board, m)
                        /\ ~ExposesKing(board, m))
        IN  /\ movegen.legal_move_list = kept
            /\ (movegen.legal_move_list = <<>>) <=>
                  \A m \in SeqRange(pseudo) :
                      \/ TakesKing(m)
                      \/ CastlesThroughAttack(board, m)
                      \/ ExposesKing(board, m)

\* C25 witness: the side to move is checkmated: its king is attacked, it has
\* pseudo-legal moves and the legal list is empty
C25_Witness ==
    /\ OneLegalCall
    /\ movegen.legal_move_list = <<>>
    /\ gen_pseudo_moves(board) # <<>>
    /\ \E k \in board.bb[board.to_move]["King"] :
          RefAttacked(board, k, Opposite(board.to_move))

\* Board b without the bishops, rooks and queens of colour c
WithoutSliders(b, c) ==
    [b EXCEPT !.bb[c]["Bishop"] = {}, !.bb[c]["Rook"] = {}, !.bb[c]["Queen"] = {}]

\* C26: is_square_under_attack(sq, by) is true exactly when sq is a
\* forward-diagonal square of a pawn of `by`, a square next to its king, a
\* jump square of one of its knights, or a square one of its bishops, rooks or
\* queens reaches along its lines over empty squares only, the first occupied
\* square of a line included whatever its colour.
C26_AttackQuery ==
    \A by \in Colors : \A sq \in Squares :
        is_square_under_attack(board, sq, by) <=> RefAttacked(board, sq, by)

\* C26 witness: after a move, a slider of a colour attacks a square that
\* holds a piece of its own colour and that nothing else of the colour
\* attacks, and the query says so
C26_Witness ==
    /\ Played
    /\ \E by \in Colors : \E sq \in PiecesOf(board, by) :
          /\ is_square_under_attack(board, sq, by)
          /\ ~RefAttacked(WithoutSliders(board, by), sq, by)

\* The home square of the king of a colour
KingHome(c) == IF c = "White" THEN 4 ELSE 60

\* C27: on every board reached from Board::default() by legal moves, a
\* castling right that is still set has the king of its colour on E1/E8 and a
\* rook of its colour on the corner of the right.
C27_RightsMatchPieces ==
    \A r \in RightNames :
        board.casteling_rights[r] =>
            /\ board.bb[RightOwner(r)]["King"] = {KingHome(RightOwner(r))}
            /\ RightCorner(r) \in board.bb[RightOwner(r)]["Rook"]

\* C27 witness: a rook has left its corner while the king is at home; the
\* right of that corner is gone and the other right of the colour is still set
C27_Witness ==
    /\ Played
    /\ last.piece_kind = "Rook"
    /\ \E r, q \in RightNames :
          /\ RightOwner(r) = last.piece_color
          /\ RightOwner(q) = last.piece_color
          /\ prev.casteling_rights[r] /\ ~board.casteling_rights[r]
          /\ board.casteling_rights[q]

\* The twelve bitboards of b are pairwise disjoint
DisjointBitboards(b) == \A s \in Squares : Cardinality(Holders(b, s)) <= 1

\* The kinds of the pieces of colour c on square s
KindsOn(b, c, s) == {k \in Kinds : s \in b.bb[c][k]}

\* C28: on a board with pairwise disjoint bitboards, no pseudo-legal move
\* lands on a piece of the mover; captured_piece is the kind of the enemy
\* piece on m.to when there is one, Pawn for an en-passant move, and None when
\* m.to is empty and the move is not en passant; after do_move no enemy piece
\* is left on m.to.
C28_CapturedDescribesBoard ==
    (OnePseudoCall /\ DisjointBitboards(board)) =>
        \A m \in SeqRange(movegen.pseudo_move_list) :
            LET enemy == Opposite(m.piece_color)
            IN  /\ m.to \notin PiecesOf(board, m.piece_color)
                /\ m.to \in PiecesOf(board, enemy) =>
                      KindsOn(board, enemy, m.to) = {m.captured_piece}
                /\ m.en_passant => m.captured_piece = "Pawn"
                /\ (m.to \notin all_pieces(board) /\ ~m.en_passant) =>
                      m.captured_piece = "None"
                /\ m.to \notin PiecesOf(do_move(board, m), enemy)

\* Each side has exactly one king on b
OneKingEach(b) == \A c \in Colors : Cardinality(b.bb[c]["King"]) = 1

\* C29: on a board from from_fen with one king per side, every castling move
\* the generator emits starts on the square the mover's king stands on, and
\* do_move of it leaves exactly one king of that colour.
C29_CastlingFromKingSquare ==
    (OnePseudoCall /\ OneKingEach(board)) =>
        \A m \in SeqRange(movegen.pseudo_move_list) :
            m.casteling =>
                /\ board.bb[m.piece_color]["King"] = {m.from}
                /\ Cardinality(do_move(board, m).bb[m.piece_color]["King"]) = 1

\* Only gen_legal_moves has been called on the MoveGen, once or more
OnlyLegalCalls ==
    /\ movegen.pc = "called"
    /\ \A i \in 1 .. Len(movegen.calls) : movegen.calls[i] = "gen_legal_moves"

\* What identifies a move in a list
MoveKey(m) == <<m.from, m.to, m.promoting_piece>>

\* C30: after one or more gen_legal_moves calls on the same MoveGen, the legal
\* list holds every legal move of the board exactly once: no two entries have
\* the same from, to and promoting_piece, and the list is the one the first
\* call built.
C30_LegalListOnce ==
    OnlyLegalCalls =>
        LET list == movegen.legal_move_list
        IN  /\ \A i, j \in 1 .. Len(list) :
                  MoveKey(list[i]) = MoveKey(list[j]) => i = j
            /\ list = gen_legal_moves(board)

=============================================================================
